---- MODULE Spec2Model ----
(***************************************************************************)
(* A model of the date/time extraction engine of VLA_LLM/dates.py:         *)
(*   - DateTimeInformation, the (datetime_min, datetime_max) range value;  *)
(*   - DateConverter.parse_date, the rule sieve;                           *)
(*   - AppointmentDateConverter, its rules and its postprocessing.         *)
(*                                                                         *)
(* A datetime is a record [some, d, s, tz]: d is the day number counted    *)
(* from 2024-01-01 (a Monday), s the second of the day (wall clock), tz    *)
(* the name of the attached zone or "naive".  Python's None is the record  *)
(* None.  Zones carry a fixed UTC offset (standard time).                  *)
(***************************************************************************)
EXTENDS Integers, Sequences, FiniteSets, TLC

VARIABLES
    dti,        \* SpecDTI: a DateTimeInformation object under its methods
    lastOp,     \* SpecDTI: the method called last on dti, with its outcome
    arg_date,               \* parse_date: the phrase (its argument date)
    message_timestamp,      \* parse_date: the timestamp of the message
    community_timezone,     \* parse_date: the timezone identifier
    self_am_to_pm_threshold, \* the converter's threshold hour
    pc,                     \* parse_date: where the call stands
    kwarg_set,              \* parse_date: the keyword arguments handed to the rules
    idx,                    \* parse_date: the index of the next rule of the sieve
    datetime_format_date,   \* parse_date: the outcome held by the loop, then the result
    trace,                  \* the outcome of each rule evaluated so far, in order
    rule_value,             \* the value the matching rule returned, before postprocessing
    self_clean_date,        \* the converter's clean_date flag
    dates,                  \* transform_dates_to_date_time_info: its argument dates
    date_pos,               \* the count of phrases of dates the loop has gone through
    datetime_info_list,     \* transform_dates_to_date_time_info: the list it builds
    parsed_dates,           \* what parse_date returned for each phrase gone through
    calls,                  \* concurrent calls of parse_date: the locals of each call
    heap                    \* concurrent calls: the DateTimeInformation objects created

dtiVars == <<dti, lastOp>>
parseVars == <<arg_date, message_timestamp, community_timezone, self_am_to_pm_threshold,
               pc, kwarg_set, idx, datetime_format_date, trace, rule_value>>
transformVars == <<self_clean_date, dates, date_pos, datetime_info_list, parsed_dates>>
threadVars == <<calls, heap>>
auxVars == <<transformVars, threadVars>>
vars == <<dti, lastOp, arg_date, message_timestamp, community_timezone,
          self_am_to_pm_threshold, pc, kwarg_set, idx, datetime_format_date, trace,
          rule_value, self_clean_date, dates, date_pos, datetime_info_list,
          parsed_dates, calls, heap>>

(***************************************************************************)
(* datetime, timedelta, calendar                                           *)
(***************************************************************************)
SecondsPerDay == 24 * 3600

None == [some |-> FALSE, d |-> 0, s |-> 0, tz |-> "naive"]

DT(d, s, tz) == [some |-> TRUE, d |-> d, s |-> s, tz |-> tz]

\* time(hour, minute, second) as a second of the day
TimeOf(h, m, s) == h * 3600 + m * 60 + s

TIME_MIN == TimeOf(0, 0, 0)
TIME_MAX == TimeOf(23, 59, 59)
TIME_MORNING_END == TimeOf(11, 59, 59)
TIME_AFTERNOON_END == TimeOf(16, 59, 59)

Hour(dt) == dt.s \div 3600
Minute(dt) == (dt.s % 3600) \div 60
Second(dt) == dt.s % 60

\* datetime + timedelta(seconds = n): wall-clock arithmetic, the zone is kept
AddSeconds(dt, n) ==
    LET total == dt.d * SecondsPerDay + dt.s + n
    IN  [dt EXCEPT !.d = total \div SecondsPerDay, !.s = total % SecondsPerDay]

AddHours(dt, n) == AddSeconds(dt, n * 3600)
AddDays(dt, n) == AddSeconds(dt, n * SecondsPerDay)

\* the zones of the zone database the model knows, with their UTC offsets
KnownZones == {"US/Eastern", "US/Pacific"}

UtcOffset(tz) ==
    CASE tz = "US/Eastern" -> -5 * 3600
      [] tz = "US/Pacific" -> -8 * 3600
      [] OTHER -> 0

IsAware(dt) == dt.tz # "naive"

\* the instant of an aware datetime, the wall-clock value of a naive one
Instant(dt) ==
    dt.d * SecondsPerDay + dt.s - (IF IsAware(dt) THEN UtcOffset(dt.tz) ELSE 0)

\* a < b between datetimes raises TypeError when exactly one of them is naive
Comparable(a, b) == IsAware(a) = IsAware(b)
Before(a, b) == Instant(a) < Instant(b)

\* a == b between datetimes: an aware and a naive one are never equal
DtEqual(a, b) == Comparable(a, b) /\ Instant(a) = Instant(b)

IsLeap(y) == (y % 4 = 0 /\ y % 100 # 0) \/ y % 400 = 0

\* calendar.monthrange(year, month)[1]
DaysInMonth(y, m) ==
    IF m = 2 THEN (IF IsLeap(y) THEN 29 ELSE 28)
    ELSE IF m \in {4, 6, 9, 11} THEN 30 ELSE 31

DaysInYear(y) == IF IsLeap(y) THEN 366 ELSE 365

RECURSIVE DaysBeforeYear(_)
DaysBeforeYear(y) == IF y <= 2024 THEN 0 ELSE DaysBeforeYear(y - 1) + DaysInYear(y - 1)

RECURSIVE DaysBeforeMonth(_, _)
DaysBeforeMonth(y, m) ==
    IF m <= 1 THEN 0 ELSE DaysBeforeMonth(y, m - 1) + DaysInMonth(y, m - 1)

\* the day number of year-month-day
Ordinal(y, m, day) == DaysBeforeYear(y) + DaysBeforeMonth(y, m) + (day - 1)

ValidDate(y, m, day) == m \in 1..12 /\ day >= 1 /\ day <= DaysInMonth(y, m)

RECURSIVE YearOfDay(_, _)
YearOfDay(n, y) == IF n < DaysBeforeYear(y + 1) THEN y ELSE YearOfDay(n, y + 1)

Year(dt) == YearOfDay(dt.d, 2024)

Month(dt) ==
    LET y == Year(dt)
        n == dt.d - DaysBeforeYear(y)
    IN  CHOOSE m \in 1..12 :
            DaysBeforeMonth(y, m) <= n /\ n < DaysBeforeMonth(y, m) + DaysInMonth(y, m)

Day(dt) == dt.d - DaysBeforeYear(Year(dt)) - DaysBeforeMonth(Year(dt), Month(dt)) + 1

\* datetime.weekday(): Monday is 0
Weekday(dt) == dt.d % 7

\* datetime.combine(date = dt, time = t): the time and the zone of dt are dropped
Combine(dt, t) == DT(dt.d, t, "naive")

(***************************************************************************)
(* DateTimeInformation                                                     *)
(***************************************************************************)
\* DateTimeInformation(): the dataclass defaults
DateTimeInformation ==
    [datetime_min |-> None, datetime_max |-> None, is_exact_date_range |-> TRUE]

set_as_date(self, date) ==
    IF date.some
    THEN [self EXCEPT !.datetime_min = Combine(date, TIME_MIN),
                      !.datetime_max = Combine(date, TIME_MAX)]
    ELSE self

set_as_exact_datetime(self, datetime) ==
    [self EXCEPT !.datetime_min = datetime, !.datetime_max = datetime]

set_as_after_datetime(self, datetime) ==
    [self EXCEPT !.datetime_min = datetime, !.datetime_max = None]

set_as_before_datetime(self, datetime) ==
    [self EXCEPT !.datetime_min = None, !.datetime_max = datetime]

\* datetime_start < datetime_end compares the two arguments
set_as_between_raises(datetime_start, datetime_end) ==
    datetime_start.some /\ datetime_end.some /\ ~Comparable(datetime_start, datetime_end)

\* mutant: the whole-day shape is taken as a between-range
set_as_between_any_shape(self, datetime_start, datetime_end, is_exact_date_range) ==
    IF datetime_start.some /\ datetime_end.some /\ Before(datetime_start, datetime_end)
    THEN [datetime_min |-> datetime_start, datetime_max |-> datetime_end,
          is_exact_date_range |-> is_exact_date_range]
    ELSE self

\* mutant: the order of the two arguments is not tested
set_as_between_unordered(self, datetime_start, datetime_end, is_exact_date_range) ==
    IF /\ datetime_start.some
       /\ datetime_end.some
       /\ (datetime_start.s # TIME_MIN \/ datetime_end.s # TIME_MAX)
    THEN [datetime_min |-> datetime_start, datetime_max |-> datetime_end,
          is_exact_date_range |-> is_exact_date_range]
    ELSE self

set_as_between_datetime(self, datetime_start, datetime_end, is_exact_date_range) ==
    IF /\ datetime_start.some
       /\ datetime_end.some
       /\ Before(datetime_start, datetime_end)
       /\ (datetime_start.s # TIME_MIN \/ datetime_end.s # TIME_MAX)
    THEN [datetime_min |-> datetime_start, datetime_max |-> datetime_end,
          is_exact_date_range |-> is_exact_date_range]
    ELSE self

\* mutant: is_exact_date_range is left as it was
set_as_morning_datetime_exact(self, date) ==
    IF date.some
    THEN [self EXCEPT !.datetime_min = Combine(date, TIME_MIN),
                      !.datetime_max = Combine(date, TIME_MORNING_END)]
    ELSE self

set_as_morning_datetime(self, date) ==
    IF date.some
    THEN [datetime_min |-> Combine(date, TIME_MIN),
          datetime_max |-> Combine(date, TIME_MORNING_END),
          is_exact_date_range |-> FALSE]
    ELSE self

set_as_afternoon_datetime(self, date) ==
    IF date.some
    THEN [datetime_min |-> AddSeconds(Combine(date, TIME_MORNING_END), 1),
          datetime_max |-> Combine(date, TIME_AFTERNOON_END),
          is_exact_date_range |-> FALSE]
    ELSE self

set_as_morning_afternoon_datetime(self, date) ==
    IF date.some
    THEN [datetime_min |-> Combine(date, TIME_MIN),
          datetime_max |-> Combine(date, TIME_AFTERNOON_END),
          is_exact_date_range |-> FALSE]
    ELSE self

\* mutant: datetime_max keeps its zone
replace_timezone_min_only(self, tzinfo_val) ==
    [self EXCEPT
        !.datetime_min = IF @.some THEN [@ EXCEPT !.tz = tzinfo_val] ELSE @]

\* datetime.replace(tzinfo = tzinfo_val): the wall clock is kept
replace_timezone(self, tzinfo_val) ==
    [self EXCEPT
        !.datetime_min = IF @.some THEN [@ EXCEPT !.tz = tzinfo_val] ELSE @,
        !.datetime_max = IF @.some THEN [@ EXCEPT !.tz = tzinfo_val] ELSE @]

\* tzinfo_val.localize(dt) attaches the zone to a naive dt
Localize(dt, tzinfo_val) == [dt EXCEPT !.tz = tzinfo_val]

\* mutant: the zone is attached whether or not the bound already has one
LocalizeBound_always(dt, tzinfo_val) ==
    IF dt.some THEN Localize(dt, tzinfo_val) ELSE dt

LocalizeBound(dt, tzinfo_val) ==
    IF dt.some /\ dt.tz = "naive" THEN Localize(dt, tzinfo_val) ELSE dt

localize_to_timezone(self, tzinfo_val) ==
    [self EXCEPT !.datetime_min = LocalizeBound(@, tzinfo_val),
                 !.datetime_max = LocalizeBound(@, tzinfo_val)]

\* mutant: the hour of the threshold itself is pushed too
PushBoundAboveThreshold_inclusive(dt, hour_threshold) ==
    IF dt.some /\ 1 <= Hour(dt) /\ Hour(dt) <= hour_threshold
    THEN AddHours(dt, 12)
    ELSE dt

PushBoundAboveThreshold(dt, hour_threshold) ==
    IF dt.some /\ 1 <= Hour(dt) /\ Hour(dt) < hour_threshold
    THEN AddHours(dt, 12)
    ELSE dt

\* mutant: only the lower bound is tested and pushed
push_dates_above_threshold_min_only(self, hour_threshold) ==
    [self EXCEPT !.datetime_min = PushBoundAboveThreshold(@, hour_threshold)]

push_dates_above_threshold(self, hour_threshold) ==
    [self EXCEPT !.datetime_min = PushBoundAboveThreshold(@, hour_threshold),
                 !.datetime_max = PushBoundAboveThreshold(@, hour_threshold)]

is_date(self) ==
    IF self.datetime_min.some /\ self.datetime_max.some
    THEN self.datetime_min.s = TIME_MIN /\ self.datetime_max.s = TIME_MAX
    ELSE FALSE

is_exact_datetime(self) ==
    IF ~self.datetime_min.some \/ ~self.datetime_max.some
    THEN FALSE
    ELSE DtEqual(self.datetime_min, self.datetime_max)

is_after_datetime(self) == self.datetime_min.some /\ ~self.datetime_max.some

is_before_datetime(self) == ~self.datetime_min.some /\ self.datetime_max.some

\* mutant: a whole day counts as a between-range too
is_between_datetime_any_shape(self) ==
    /\ self.datetime_min.some
    /\ self.datetime_max.some
    /\ Before(self.datetime_min, self.datetime_max)

is_between_datetime(self) ==
    IF /\ self.datetime_min.some
       /\ self.datetime_max.some
       /\ Before(self.datetime_min, self.datetime_max)
    THEN self.datetime_min.s # TIME_MIN \/ self.datetime_max.s # TIME_MAX
    ELSE FALSE

\* DateTimeInformation.convert: the tuple as a sequence, None as ConvertedNone
ConvertedNone == <<>>

convert(self) ==
    IF is_date(self) THEN <<self.datetime_min>>
    ELSE IF is_exact_datetime(self) THEN <<self.datetime_min>>
    ELSE IF is_after_datetime(self) THEN <<self.datetime_min>>
    ELSE IF is_before_datetime(self) THEN <<self.datetime_max>>
    ELSE IF is_between_datetime(self) THEN <<self.datetime_min, self.datetime_max>>
    ELSE ConvertedNone

\* DateTimeInformation.__bool__
Truthy(self) == self.datetime_min.some \/ self.datetime_max.some

PushBoundToNextDay(dt, reference_timestamp) ==
    IF dt.some /\ Before(dt, reference_timestamp) THEN AddDays(dt, 1) ELSE dt

\* the comparisons the method makes, in its order, that raise TypeError
push_to_next_day_raises(self, reference_timestamp) ==
    \/ /\ self.datetime_min.some /\ self.datetime_max.some
       /\ ~Comparable(self.datetime_min, self.datetime_max)
    \/ self.datetime_min.some /\ ~Comparable(self.datetime_min, reference_timestamp)
    \/ /\ ~is_between_datetime(self)
       /\ self.datetime_max.some /\ ~Comparable(self.datetime_max, reference_timestamp)

\* mutant: the non-exact between-range is rolled like an exact one
push_to_next_day_if_before_time_rolls_fuzzy(self, reference_timestamp) ==
    IF is_between_datetime(self)
    THEN IF Before(self.datetime_min, reference_timestamp)
         THEN [self EXCEPT !.datetime_min = AddDays(@, 1),
                           !.datetime_max = AddDays(@, 1)]
         ELSE self
    ELSE [self EXCEPT !.datetime_min = PushBoundToNextDay(@, reference_timestamp),
                      !.datetime_max = PushBoundToNextDay(@, reference_timestamp)]

push_to_next_day_if_before_time(self, reference_timestamp) ==
    IF is_between_datetime(self)
    THEN IF ~self.is_exact_date_range
         THEN self
         ELSE IF Before(self.datetime_min, reference_timestamp)
              THEN [self EXCEPT !.datetime_min = AddDays(@, 1),
                                !.datetime_max = AddDays(@, 1)]
              ELSE self
    ELSE [self EXCEPT !.datetime_min = PushBoundToNextDay(@, reference_timestamp),
                      !.datetime_max = PushBoundToNextDay(@, reference_timestamp)]

(***************************************************************************)
(* SpecDTI: one DateTimeInformation object under any sequence of calls of  *)
(* its methods, with arguments drawn from small sets.                      *)
(***************************************************************************)
\* days of the datetimes handed to the setters: 0 .. NumDays - 1
NumDays == 2

\* the pushes stop once a bound has reached this day
DayCap == NumDays + 1

DtiTimes == {TIME_MIN, TimeOf(8, 0, 0), TimeOf(13, 0, 0), TIME_MAX}

DtiDateTimes ==
    {DT(d, s, tz) : d \in 0..(NumDays - 1), s \in DtiTimes, tz \in {"naive", "US/Eastern"}}

\* the ends handed to set_as_between_datetime with a start: None, the
\* datetimes of the start's kind (naive or aware), and two of the other kind
DtiRangeEnds(datetime_start) ==
    {None} \cup {e \in DtiDateTimes :
                    \/ e.tz = datetime_start.tz
                    \/ (e.d = 0 /\ e.s \in {TimeOf(13, 0, 0), TIME_MAX})}

DtiReferences ==
    {DT(d, s, tz) : d \in 0..(NumDays - 1), s \in {TIME_MIN, TimeOf(9, 0, 0)},
                    tz \in {"naive", "US/Pacific"}}

DtiThresholds == {0, 9, 13}

\* a call record: the method, the exception it raised, its threshold or reference
Called(name) == [name |-> name, exc |-> "none", thr |-> -1, ref |-> None, args |-> {}]
Raised(name, exc) == [name |-> name, exc |-> exc, thr |-> -1, ref |-> None, args |-> {}]

\* what the two arguments of a call of set_as_between_datetime are like: one is
\* absent, one is naive and the other not, the start is not before the end,
\* the start is at 00:00:00 and the end at 23:59:59
BetweenArguments(datetime_start, datetime_end) ==
    LET both == datetime_start.some /\ datetime_end.some
    IN  {k \in {"absent", "mixed", "not_before", "whole_day"} :
            CASE k = "absent" -> ~both
              [] k = "mixed" -> both /\ ~Comparable(datetime_start, datetime_end)
              [] k = "not_before" ->
                    /\ both
                    /\ Comparable(datetime_start, datetime_end)
                    /\ ~Before(datetime_start, datetime_end)
              [] k = "whole_day" ->
                    both /\ datetime_start.s = TIME_MIN /\ datetime_end.s = TIME_MAX}

BelowDayCap(self) ==
    /\ self.datetime_min.some => self.datetime_min.d < DayCap
    /\ self.datetime_max.some => self.datetime_max.d < DayCap

\* no call of parse_date is in flight
ParseIdle ==
    /\ arg_date = <<>>
    /\ message_timestamp = None
    /\ community_timezone = ""
    /\ self_am_to_pm_threshold = 0
    /\ pc = "idle"
    /\ kwarg_set = None
    /\ idx = 0
    /\ datetime_format_date = None
    /\ trace = <<>>
    /\ rule_value = None

\* no call of transform_dates_to_date_time_info is in flight
TransformIdle ==
    /\ self_clean_date = TRUE
    /\ dates = <<>>
    /\ date_pos = 0
    /\ datetime_info_list = <<>>
    /\ parsed_dates = <<>>

\* no concurrent calls are in flight
ThreadsIdle ==
    /\ calls = <<>>
    /\ heap = <<>>

InitDTI ==
    /\ dti = DateTimeInformation
    /\ lastOp = Called("__init__")
    /\ ParseIdle
    /\ TransformIdle
    /\ ThreadsIdle

SetAsDate ==
    /\ UNCHANGED <<parseVars, auxVars>>
    /\ \E date \in DtiDateTimes :
        /\ dti' = set_as_date(dti, date)
        /\ lastOp' = Called("set_as_date")

SetAsExactDatetime ==
    /\ UNCHANGED <<parseVars, auxVars>>
    /\ \E datetime \in DtiDateTimes :
        /\ dti' = set_as_exact_datetime(dti, datetime)
        /\ lastOp' = Called("set_as_exact_datetime")

SetAsAfterDatetime ==
    /\ UNCHANGED <<parseVars, auxVars>>
    /\ \E datetime \in DtiDateTimes :
        /\ dti' = set_as_after_datetime(dti, datetime)
        /\ lastOp' = Called("set_as_after_datetime")

SetAsBeforeDatetime ==
    /\ UNCHANGED <<parseVars, auxVars>>
    /\ \E datetime \in DtiDateTimes :
        /\ dti' = set_as_before_datetime(dti, datetime)
        /\ lastOp' = Called("set_as_before_datetime")

SetAsBetweenDatetime ==
    /\ UNCHANGED <<parseVars, auxVars>>
    /\ \E datetime_start \in DtiDateTimes \cup {None},
       is_exact_date_range \in BOOLEAN :
       \E datetime_end \in DtiRangeEnds(datetime_start) :
        IF set_as_between_raises(datetime_start, datetime_end)
        THEN /\ dti' = dti
             /\ lastOp' = [Raised("set_as_between_datetime", "TypeError")
                              EXCEPT !.args = BetweenArguments(datetime_start,
                                                               datetime_end)]
        ELSE /\ dti' = set_as_between_datetime(dti, datetime_start, datetime_end,
                                               is_exact_date_range)
             /\ lastOp' = [Called("set_as_between_datetime")
                              EXCEPT !.args = BetweenArguments(datetime_start,
                                                               datetime_end)]

SetAsMorningDatetime ==
    /\ UNCHANGED <<parseVars, auxVars>>
    /\ \E date \in DtiDateTimes :
        /\ dti' = set_as_morning_datetime(dti, date)
        /\ lastOp' = Called("set_as_morning_datetime")

SetAsAfternoonDatetime ==
    /\ UNCHANGED <<parseVars, auxVars>>
    /\ \E date \in DtiDateTimes :
        /\ dti' = set_as_afternoon_datetime(dti, date)
        /\ lastOp' = Called("set_as_afternoon_datetime")

SetAsMorningAfternoonDatetime ==
    /\ UNCHANGED <<parseVars, auxVars>>
    /\ \E date \in DtiDateTimes :
        /\ dti' = set_as_morning_afternoon_datetime(dti, date)
        /\ lastOp' = Called("set_as_morning_afternoon_datetime")

ReplaceTimezone ==
    /\ UNCHANGED <<parseVars, auxVars>>
    /\ \E tzinfo_val \in {"naive", "US/Eastern"} :
        /\ dti' = replace_timezone(dti, tzinfo_val)
        /\ lastOp' = Called("replace_timezone")

LocalizeToTimezone ==
    /\ UNCHANGED <<parseVars, auxVars>>
    /\ \E tzinfo_val \in KnownZones :
        /\ dti' = localize_to_timezone(dti, tzinfo_val)
        /\ lastOp' = Called("localize_to_timezone")

PushDatesAboveThreshold ==
    /\ UNCHANGED <<parseVars, auxVars>>
    /\ \E hour_threshold \in DtiThresholds :
        /\ BelowDayCap(dti)
        /\ dti' = push_dates_above_threshold(dti, hour_threshold)
        /\ lastOp' = [Called("push_dates_above_threshold") EXCEPT !.thr = hour_threshold]

PushToNextDayIfBeforeTime ==
    /\ UNCHANGED <<parseVars, auxVars>>
    /\ \E reference_timestamp \in DtiReferences :
        /\ BelowDayCap(dti)
        /\ IF push_to_next_day_raises(dti, reference_timestamp)
           THEN /\ dti' = dti
                /\ lastOp' = [Raised("push_to_next_day_if_before_time", "TypeError")
                                 EXCEPT !.ref = reference_timestamp]
           ELSE /\ dti' = push_to_next_day_if_before_time(dti, reference_timestamp)
                /\ lastOp' = [Called("push_to_next_day_if_before_time")
                                 EXCEPT !.ref = reference_timestamp]

NextDTI ==
    \/ SetAsDate
    \/ SetAsExactDatetime
    \/ SetAsAfterDatetime
    \/ SetAsBeforeDatetime
    \/ SetAsBetweenDatetime
    \/ SetAsMorningDatetime
    \/ SetAsAfternoonDatetime
    \/ SetAsMorningAfternoonDatetime
    \/ ReplaceTimezone
    \/ LocalizeToTimezone
    \/ PushDatesAboveThreshold
    \/ PushToNextDayIfBeforeTime

SpecDTI == InitDTI /\ [][NextDTI]_vars

(***************************************************************************)
(* Phrases.  A phrase is a sequence of tokens; a token is a word, a number *)
(* or a punctuation mark, with the count of blanks written before it.      *)
(* A number keeps its digits, and col, the count of digits before its ':'  *)
(* (0: no colon).  Words keep their case.  The regular expressions of the  *)
(* rules are matched token by token; numbers have at most four digits, so  *)
(* \d{1,2}:?\d{0,2} takes a number whole.                                  *)
(***************************************************************************)
Wd(w) == [k |-> "w", w |-> w, ds |-> <<>>, col |-> 0, sp |-> 1]
Nm(ds) == [k |-> "n", w |-> "", ds |-> ds, col |-> 0, sp |-> 1]
NmColon(ds, col) == [k |-> "n", w |-> "", ds |-> ds, col |-> col, sp |-> 1]
Pn(w) == [k |-> "p", w |-> w, ds |-> <<>>, col |-> 0, sp |-> 1]
\* the same token written without a blank before it
Glued(t) == [t EXCEPT !.sp = 0]
EndTok == [k |-> "end", w |-> "", ds |-> <<>>, col |-> 0, sp |-> 0]

\* the digits of a number below 100
Digits(n) == IF n < 10 THEN <<n>> ELSE <<n \div 10, n % 10>>

At(date, i) == IF i >= 1 /\ i <= Len(date) THEN date[i] ELSE EndTok

\* str.lower() on the words of the vocabulary that are not lower case already
Lower(w) ==
    CASE w = "Sep" -> "sep"
      [] w = "Feb" -> "feb"
      [] w = "PM" -> "pm"
      [] w = "Tomorrow" -> "tomorrow"
      [] w = "Monday" -> "monday"
      [] OTHER -> w

IsNum(t) == t.k = "n"
\* a word matched under re.IGNORECASE
Word(t, w) == t.k = "w" /\ Lower(t.w) = w
WordIn(t, S) == t.k = "w" /\ Lower(t.w) \in S
\* a word matched as written
WordCS(t, w) == t.k = "w" /\ t.w = w
Hyphen(t) == t.k = "p" /\ t.w = "-"

\* the least element of a non-empty set of numbers
Least(S) == CHOOSE x \in S : \A y \in S : x <= y

RECURSIVE DigitsValue(_)
\* int() of a non-empty string of digits
DigitsValue(ds) ==
    IF Len(ds) = 0 THEN 0
    ELSE DigitsValue(SubSeq(ds, 1, Len(ds) - 1)) * 10 + ds[Len(ds)]

MONTH_NUMS_LOOKUP(month) ==
    CASE month \in {"jan", "january"} -> 1
      [] month \in {"feb", "february"} -> 2
      [] month \in {"mar", "march"} -> 3
      [] month \in {"apr", "april"} -> 4
      [] month = "may" -> 5
      [] month \in {"jun", "june"} -> 6
      [] month \in {"jul", "july"} -> 7
      [] month \in {"aug", "august"} -> 8
      [] month \in {"sep", "september"} -> 9
      [] month \in {"oct", "october"} -> 10
      [] month \in {"nov", "november"} -> 11
      [] month \in {"dec", "december"} -> 12

\* MONTH_NUMS_LOOKUP.keys()
MonthKeys ==
    {"jan", "january", "feb", "february", "mar", "march", "apr", "april", "may",
     "jun", "june", "jul", "july", "aug", "august", "sep", "september", "oct",
     "october", "nov", "november", "dec", "december"}

(***************************************************************************)
(* Rule outcomes: None, an object, or an exception leaving the rule.       *)
(***************************************************************************)
ReturnNone == [tag |-> "None", v |-> DateTimeInformation, e |-> "none"]
Return(v) == [tag |-> "obj", v |-> v, e |-> "none"]
Raise(e) == [tag |-> "raise", v |-> DateTimeInformation, e |-> e]

\* datetime.replace(hour = h, minute = m) raises ValueError outside these ranges
ReplaceTimeOk(h, m) == h \in 0..23 /\ m \in 0..59
ReplaceTime(dt, h, m) == [dt EXCEPT !.s = TimeOf(h, m, Second(dt))]

(***************************************************************************)
(* AppointmentDateConverter: helpers                                       *)
(***************************************************************************)
\* _parse_hour_minute_str on the text of a number token: [ok, hour, minute];
\* ok is false where int('') raises ValueError
parse_hour_minute_str(t) ==
    IF t.col > 0
    THEN IF Len(t.ds) = t.col
         THEN [ok |-> FALSE, hour |-> 0, minute |-> 0]
         ELSE [ok |-> TRUE, hour |-> DigitsValue(SubSeq(t.ds, 1, t.col)),
               minute |-> DigitsValue(SubSeq(t.ds, t.col + 1, Len(t.ds)))]
    ELSE IF Len(t.ds) < 3
         THEN [ok |-> TRUE, hour |-> DigitsValue(t.ds), minute |-> 0]
         ELSE IF Len(t.ds) = 3
              THEN [ok |-> TRUE, hour |-> DigitsValue(SubSeq(t.ds, 1, 1)),
                    minute |-> DigitsValue(SubSeq(t.ds, 2, 3))]
              ELSE [ok |-> TRUE, hour |-> DigitsValue(SubSeq(t.ds, 1, 2)),
                    minute |-> DigitsValue(SubSeq(t.ds, 3, 4))]

\* qualifier is the text matched by (am|pm), as written, or "" for None
\* mutant: the qualifier is not looked at
time_qualifier_to_int_unqualified(time, am_pm_threshold, qualifier) ==
    IF time < am_pm_threshold THEN time + 12 ELSE time

\* mutant: an hour marked am is kept as it is written
time_qualifier_to_int_keeping_am(time, am_pm_threshold, qualifier) ==
    IF qualifier = "am" THEN time
    ELSE IF qualifier = "pm" /\ time < 12 THEN time + 12
    ELSE IF time < am_pm_threshold THEN time + 12 ELSE time

time_qualifier_to_int(time, am_pm_threshold, qualifier) ==
    IF qualifier # "" /\ qualifier = "pm" /\ time < 12
    THEN time + 12
    ELSE IF time < am_pm_threshold THEN time + 12 ELSE time

\* the text that day_pattern matches inside a word of the vocabulary, "" if none
DaySpecifierIn(w) ==
    CASE w \in {"today", "tomorrow"} -> w
      [] w \in {"mon", "monday", "month"} -> "mon"
      [] w \in {"tue", "tues", "tuesday"} -> "tue"
      [] w \in {"wed", "wednesday"} -> "wed"
      [] w \in {"thu", "thurs", "thursday"} -> "thu"
      [] w \in {"fri", "friday"} -> "fri"
      [] w \in {"sat", "saturday"} -> "sat"
      [] w \in {"sun", "sunday"} -> "sun"
      [] OTHER -> ""

\* the text of the first day specifier of the phrase, as written there
FirstDaySpecifier(date) ==
    LET hits == {i \in 1..Len(date) : date[i].k = "w" /\ DaySpecifierIn(Lower(date[i].w)) # ""}
    IN  IF hits = {} THEN ""
        ELSE LET t == date[Least(hits)]
             IN  IF t.w = Lower(t.w) THEN DaySpecifierIn(t.w) ELSE t.w

\* _match_and_convert_day_specifier: None when no day specifier is found
match_and_convert_day_specifier(date, message_day) ==
    LET day == FirstDaySpecifier(date)
        day_to_number ==
            CASE day = "tomorrow" -> Weekday(message_day) + 1
              [] day = "mon" -> 0
              [] day = "tue" -> 1
              [] day = "wed" -> 2
              [] day = "thu" -> 3
              [] day = "fri" -> 4
              [] day = "sat" -> 5
              [] day = "sun" -> 6
              [] OTHER -> Weekday(message_day)
        days_until == day_to_number - Weekday(message_day)
    IN  IF day = "" THEN None
        ELSE AddDays(message_day, IF days_until < 0 THEN 7 + days_until ELSE days_until)

(***************************************************************************)
(* AppointmentDateConverter: rules.  Each takes the phrase, the keyword    *)
(* arguments kw of parse_date and the converter's am_to_pm_threshold.      *)
(***************************************************************************)
\* (?P<time_of_day>am|pm)? after the number at h: its text as written, or ""
TimeOfDayAfter(date, h) ==
    IF WordIn(At(date, h + 1), {"am", "pm"}) THEN At(date, h + 1).w ELSE ""

\* the index after the number at h and its optional am|pm
AfterTime(date, h) == IF TimeOfDayAfter(date, h) = "" THEN h + 1 ELSE h + 2

\* (?P<prep_post>(or|and)\s*(later|earlier))? at index i: its last word as written
PrepPostAt(date, i) ==
    IF WordIn(At(date, i), {"or", "and"}) /\ WordIn(At(date, i + 1), {"later", "earlier"})
    THEN At(date, i + 1).w
    ELSE ""

\* (?P<pre>day\s*(at|around|@)?(\s*|~))? at index i: the index of the number
\* the pre group leads to, 0 when the pattern cannot start at i with a pre
PreHourIndex(date, day, i) ==
    IF ~Word(At(date, i), day) THEN 0
    ELSE IF IsNum(At(date, i + 1)) THEN i + 1
    ELSE IF WordIn(At(date, i + 1), {"at", "around"}) /\ IsNum(At(date, i + 2)) THEN i + 2
    ELSE 0

\* re.search of the today/tomorrow pattern: the leftmost match
QualifierTimeMatch(date, day) ==
    LET starts == {i \in 1..Len(date) : IsNum(date[i]) \/ PreHourIndex(date, day, i) # 0}
        start == Least(starts)
        pre == ~IsNum(date[start])
        h == IF pre THEN PreHourIndex(date, day, start) ELSE start
        time_of_day == TimeOfDayAfter(date, h)
        n == AfterTime(date, h)
        post == Word(At(date, n), day) /\ (time_of_day = "" \/ At(date, n).sp = 0)
    IN  IF starts = {}
        THEN [matched |-> FALSE, pre |-> FALSE, post |-> FALSE, hour_minute |-> EndTok,
              time_of_day |-> "", prep_post |-> ""]
        ELSE [matched |-> TRUE, pre |-> pre, post |-> post, hour_minute |-> date[h],
              time_of_day |-> time_of_day,
              prep_post |-> PrepPostAt(date, IF post THEN n + 1 ELSE n)]

\* mutant: the suffix is not looked at, the value is always an exact instant
QualifierTime_ignoring_suffix(date, day, base_day, am_to_pm_threshold) ==
    LET match == QualifierTimeMatch(date, day)
        parsed_time == parse_hour_minute_str(match.hour_minute)
        extracted_hour ==
            time_qualifier_to_int(parsed_time.hour, am_to_pm_threshold, match.time_of_day)
        moment == ReplaceTime(base_day, extracted_hour, parsed_time.minute)
    IN  IF ~match.matched \/ (~match.pre /\ ~match.post) THEN ReturnNone
        ELSE IF ~parsed_time.ok THEN Raise("ValueError")
        ELSE IF ~ReplaceTimeOk(extracted_hour, parsed_time.minute) THEN Raise("ValueError")
        ELSE Return(set_as_exact_datetime(DateTimeInformation, moment))

\* the shared body of _tomorrow_qualifier_time and _today_qualifier_time
QualifierTime(date, day, base_day, am_to_pm_threshold) ==
    LET match == QualifierTimeMatch(date, day)
        parsed_time == parse_hour_minute_str(match.hour_minute)
        extracted_hour ==
            time_qualifier_to_int(parsed_time.hour, am_to_pm_threshold, match.time_of_day)
        moment == ReplaceTime(base_day, extracted_hour, parsed_time.minute)
    IN  IF ~match.matched \/ (~match.pre /\ ~match.post) THEN ReturnNone
        ELSE IF ~parsed_time.ok THEN Raise("ValueError")
        ELSE IF ~ReplaceTimeOk(extracted_hour, parsed_time.minute) THEN Raise("ValueError")
        ELSE IF match.prep_post = "later"
             THEN Return(set_as_after_datetime(DateTimeInformation, moment))
        ELSE IF match.prep_post = "earlier"
             THEN Return(set_as_before_datetime(DateTimeInformation, moment))
        ELSE Return(set_as_exact_datetime(DateTimeInformation, moment))

tomorrow_qualifier_time(date, kw, am_to_pm_threshold) ==
    QualifierTime(date, "tomorrow", AddDays(kw.message_day, 1), am_to_pm_threshold)

today_qualifier_time(date, kw, am_to_pm_threshold) ==
    QualifierTime(date, "today", kw.message_day, am_to_pm_threshold)

\* re_pattern of _time_range_between can match with its first number at j
BetweenMatchAt(date, j) ==
    /\ IsNum(At(date, j))
    /\ LET a == AfterTime(date, j)
       IN  (Word(At(date, a), "to") \/ Hyphen(At(date, a))) /\ IsNum(At(date, a + 1))

\* date_pattern: a month name followed by a number; the day is \d{1,2} of it
DatePatternAt(date, i) == WordIn(At(date, i), MonthKeys) /\ IsNum(At(date, i + 1))

LeadingDigits(t, n) ==
    LET len == IF t.col > 0 /\ t.col < n THEN t.col
               ELSE IF Len(t.ds) < n THEN Len(t.ds) ELSE n
    IN  SubSeq(t.ds, 1, len)

time_range_between(date, kw, am_to_pm_threshold) ==
    LET matches == {j \in 1..Len(date) : BetweenMatchAt(date, j)}
        j == Least(matches)
        e == AfterTime(date, j) + 1
        parsed_time_start == parse_hour_minute_str(date[j])
        parsed_time_end == parse_hour_minute_str(date[e])
        hour_start == time_qualifier_to_int(parsed_time_start.hour, am_to_pm_threshold,
                                            TimeOfDayAfter(date, j))
        hour_end == time_qualifier_to_int(parsed_time_end.hour, am_to_pm_threshold,
                                          TimeOfDayAfter(date, e))
        date_matches == {i \in 1..Len(date) : DatePatternAt(date, i)}
        i == Least(date_matches)
        month_to_number == MONTH_NUMS_LOOKUP(Lower(date[i].w))
        day == DigitsValue(LeadingDigits(date[i + 1], 2))
        message_day_converted == match_and_convert_day_specifier(date, kw.message_day)
        message_day ==
            IF date_matches # {}
            THEN [kw.message_day EXCEPT
                    !.d = Ordinal(Year(kw.message_day), month_to_number, day)]
            ELSE IF message_day_converted.some THEN message_day_converted
            ELSE kw.message_day
    IN  IF matches = {} THEN ReturnNone
        ELSE IF ~parsed_time_start.ok \/ ~parsed_time_end.ok THEN Raise("ValueError")
        ELSE IF date_matches # {}
                /\ ~ValidDate(Year(kw.message_day), month_to_number, day)
             THEN Raise("ValueError")
        ELSE IF ~ReplaceTimeOk(hour_start, parsed_time_start.minute) THEN Raise("ValueError")
        ELSE IF ~ReplaceTimeOk(hour_end, parsed_time_end.minute) THEN Raise("ValueError")
        ELSE Return(set_as_between_datetime(
                        DateTimeInformation,
                        ReplaceTime(message_day, hour_start, parsed_time_start.minute),
                        ReplaceTime(message_day, hour_end, parsed_time_end.minute),
                        TRUE))

\* re.search of the pattern of _time_range: the leftmost match is at the first
\* number, with the before|after written right before it
time_range(date, kw, am_to_pm_threshold) ==
    LET nums == {j \in 1..Len(date) : IsNum(date[j])}
        j == Least(nums)
        prep_pre == IF WordIn(At(date, j - 1), {"before", "after"}) THEN At(date, j - 1).w
                    ELSE ""
        prep_post == PrepPostAt(date, AfterTime(date, j))
        parsed_time == parse_hour_minute_str(date[j])
        extracted_hour == time_qualifier_to_int(parsed_time.hour, am_to_pm_threshold,
                                                TimeOfDayAfter(date, j))
        message_day_converted == match_and_convert_day_specifier(date, kw.message_day)
        message_day == IF message_day_converted.some THEN message_day_converted
                       ELSE kw.message_day
        parsed_date == ReplaceTime(message_day, extracted_hour, parsed_time.minute)
    IN  IF nums = {} \/ (prep_pre = "" /\ prep_post = "") THEN ReturnNone
        ELSE IF ~parsed_time.ok THEN Raise("ValueError")
        ELSE IF ~ReplaceTimeOk(extracted_hour, parsed_time.minute) THEN Raise("ValueError")
        ELSE IF prep_pre = "before" \/ prep_post = "earlier"
             THEN Return(set_as_before_datetime(DateTimeInformation, parsed_date))
        ELSE IF prep_pre = "after" \/ prep_post = "later"
             THEN Return(set_as_after_datetime(DateTimeInformation, parsed_date))
        ELSE ReturnNone

\* len(date) <= 2 and date.isdigit()
IsShortNumber(date) ==
    Len(date) = 1 /\ IsNum(date[1]) /\ date[1].col = 0 /\ date[1].sp = 0
        /\ Len(date[1].ds) <= 2

singular_digit(date, kw, am_to_pm_threshold) ==
    IF IsShortNumber(date)
    THEN LET hour == DigitsValue(date[1].ds)
         IN  IF 0 < hour /\ hour < 23
             THEN Return(set_as_exact_datetime(DateTimeInformation,
                                               ReplaceTime(kw.message_day, hour, 0)))
             ELSE ReturnNone
    ELSE ReturnNone

\* the first index at or after i that holds no hyphen ([\s\-]*)
SkipHyphens(date, i) == IF Hyphen(At(date, i)) THEN i + 1 ELSE i

\* the digits \d+ takes when the search starts inside the number t
TrailingDigits(t) == IF t.col > 0 THEN SubSeq(t.ds, t.col + 1, Len(t.ds)) ELSE t.ds

\* APARTMENT_DATE_LIST_PATTERN with hour1 in the number at j: the index of the
\* month it matches, 0 when it does not match there
ListPatternMonthIndex(date, j) ==
    LET a == SkipHyphens(date, j + 2)
        second == IsNum(At(date, a)) /\ At(date, a).col = 0
        b == IF ~second THEN a
             ELSE IF WordIn(At(date, a + 1), {"am", "pm"}) /\ At(date, a + 1).sp = 0
                  THEN a + 2 ELSE a + 1
        m == SkipHyphens(date, b)
    IN  IF /\ IsNum(At(date, j))
           /\ Len(TrailingDigits(At(date, j))) > 0
           /\ WordIn(At(date, j + 1), {"am", "pm"})
           /\ At(date, j + 1).sp = 0
           /\ WordIn(At(date, m), MonthKeys)
           /\ IsNum(At(date, m + 1))
        THEN m
        ELSE 0

hour_range_month_date(date, kw, am_to_pm_threshold) ==
    LET matches == {j \in 1..Len(date) : ListPatternMonthIndex(date, j) # 0}
        j == Least(matches)
        m == ListPatternMonthIndex(date, j)
        extracted_hour == time_qualifier_to_int(DigitsValue(TrailingDigits(date[j])),
                                                am_to_pm_threshold, date[j + 1].w)
        day == DigitsValue(LeadingDigits(date[m + 1], 4))
        month == MONTH_NUMS_LOOKUP(date[m].w)
        year == Year(kw.message_day)
    IN  IF matches = {} THEN ReturnNone
        ELSE IF date[m].w \notin MonthKeys THEN Raise("KeyError")
        ELSE IF ~ValidDate(year, month, day) \/ extracted_hour \notin 0..23
             THEN ReturnNone
        ELSE Return(set_as_exact_datetime(
                        DateTimeInformation,
                        DT(Ordinal(year, month, day), TimeOf(extracted_hour, 0, 0), "naive")))

TimesOfDay == {"morning", "afternoon", "evening"}

\* re.search of the pattern of _time_of_day: the leftmost match is at the first
\* time of day, with the today|tomorrow written before it
time_of_day(date, kw, am_to_pm_threshold) ==
    LET hits == {j \in 1..Len(date) : WordIn(date[j], TimesOfDay)}
        j == Least(hits)
        b == IF Hyphen(At(date, j - 1)) THEN j - 2 ELSE j - 1
        day_pre == IF WordIn(At(date, b), {"today", "tomorrow"}) THEN At(date, b).w ELSE ""
        o == IF Word(At(date, j + 1), "or") THEN j + 2 ELSE j + 1
        time_of_day1 == date[j].w
        time_of_day2 == IF WordIn(At(date, o), TimesOfDay) THEN At(date, o).w ELSE ""
        p == IF time_of_day2 = "" THEN o ELSE o + 1
        day_post == IF WordIn(At(date, p), {"today", "tomorrow"})
                       /\ (time_of_day2 = "" \/ At(date, p).sp = 0)
                    THEN At(date, p).w ELSE ""
        times_of_day == {time_of_day1} \cup (IF time_of_day2 = "" THEN {} ELSE {time_of_day2})
        both == time_of_day2 # ""
        parsed_date == IF day_pre = "tomorrow" \/ day_post = "tomorrow"
                       THEN AddDays(kw.message_day, 1) ELSE kw.message_day
    IN  IF hits = {} \/ (day_pre = "" /\ day_post = "") THEN ReturnNone
        ELSE IF ~both /\ time_of_day1 = "morning"
             THEN Return(set_as_morning_datetime(DateTimeInformation, parsed_date))
        ELSE IF ~both /\ time_of_day1 = "afternoon"
             THEN Return(set_as_afternoon_datetime(DateTimeInformation, parsed_date))
        ELSE IF both /\ times_of_day = {"afternoon", "morning"}
             THEN Return(set_as_morning_afternoon_datetime(DateTimeInformation, parsed_date))
        ELSE ReturnNone

(***************************************************************************)
(* DateConverter: rules                                                    *)
(***************************************************************************)
\* \b before the token at i, and after it
BoundaryBefore(date, i) == i = 1 \/ date[i].sp = 1 \/ At(date, i - 1).k = "p"
BoundaryAfter(date, i) ==
    i >= Len(date) \/ At(date, i + 1).sp = 1 \/ At(date, i + 1).k = "p"

weekend_converter(date, kw) ==
    LET day_of_week == Weekday(kw.message_day)
    IN  IF \E i \in 1..Len(date) :
              /\ Word(date[i], "this") /\ Word(At(date, i + 1), "weekend")
              /\ At(date, i + 1).sp = 1
              /\ BoundaryBefore(date, i) /\ BoundaryAfter(date, i + 1)
        THEN IF day_of_week < 5
             THEN Return(set_as_date(DateTimeInformation,
                                     AddDays(kw.message_day, 5 - day_of_week)))
             ELSE Return(set_as_date(DateTimeInformation, kw.message_day))
        ELSE ReturnNone

\* mutant: the day after the message day up to Friday
weekday_converter_until_friday(date, kw) ==
    LET day_of_week == Weekday(kw.message_day)
    IN  IF \E i \in 1..Len(date) :
              /\ WordCS(date[i], "this") /\ WordCS(At(date, i + 1), "week")
              /\ At(date, i + 1).sp = 1
              /\ BoundaryBefore(date, i) /\ BoundaryAfter(date, i + 1)
        THEN IF day_of_week < 5
             THEN Return(set_as_date(DateTimeInformation, AddDays(kw.message_day, 1)))
             ELSE Return(set_as_date(DateTimeInformation,
                                     AddDays(kw.message_day, 7 - day_of_week)))
        ELSE ReturnNone

weekday_converter(date, kw) ==
    LET day_of_week == Weekday(kw.message_day)
    IN  IF \E i \in 1..Len(date) :
              /\ WordCS(date[i], "this") /\ WordCS(At(date, i + 1), "week")
              /\ At(date, i + 1).sp = 1
              /\ BoundaryBefore(date, i) /\ BoundaryAfter(date, i + 1)
        THEN IF day_of_week < 3
             THEN Return(set_as_date(DateTimeInformation, AddDays(kw.message_day, 1)))
             ELSE Return(set_as_date(DateTimeInformation,
                                     AddDays(kw.message_day, 7 - day_of_week)))
        ELSE ReturnNone

\* the month names HYPHENATED_MONTH_PATTERN spells out: lower case or capitalised
HyphenatedMonths == MonthKeys \cup {"Sep", "Feb"}

\* HYPHENATED_MONTH_PATTERN with day_part_2 in the word at i: the index of
\* the month it matches, 0 when it does not match there
HyphenatedMonthIndex(date, i) ==
    LET h == IF Hyphen(At(date, i + 1)) /\ At(date, i + 1).sp = 0 THEN i + 2 ELSE i + 1
    IN  IF /\ At(date, i).k = "w" /\ At(date, i).w \in {"early", "mid", "late"}
           /\ At(date, h).k = "w" /\ At(date, h).w \in HyphenatedMonths
        THEN h ELSE 0

\* day_part_1: early|mid written before a "/" glued to day_part_2 at i
DayPart1(date, i) ==
    IF /\ date[i].sp = 0
       /\ At(date, i - 1).k = "p" /\ At(date, i - 1).w = "/" /\ At(date, i - 1).sp = 0
       /\ At(date, i - 2).k = "w" /\ At(date, i - 2).w \in {"early", "mid"}
    THEN At(date, i - 2).w ELSE ""

\* mutant: the year also rolls forward for the month of the message
early_mid_late_month_rolls_own_month(date, kw) ==
    LET matches == {i \in 1..Len(date) : HyphenatedMonthIndex(date, i) # 0}
        i == Least(matches)
        month_int == MONTH_NUMS_LOOKUP(Lower(date[HyphenatedMonthIndex(date, i)].w))
        year == IF month_int <= Month(kw.message_timestamp)
                THEN Year(kw.message_timestamp) + 1 ELSE Year(kw.message_timestamp)
        day_part == IF DayPart1(date, i) # "" THEN DayPart1(date, i) ELSE date[i].w
        day == CASE day_part = "early" -> 1
                 [] day_part = "mid" -> 15
                 [] day_part = "late" -> DaysInMonth(year, month_int)
        parsed_date == DT(Ordinal(year, month_int, day), TIME_MIN, "naive")
    IN  IF matches = {} THEN ReturnNone
        ELSE Return(set_as_date(DateTimeInformation,
                                Localize(parsed_date, kw.message_timestamp.tz)))

early_mid_late_month(date, kw) ==
    LET matches == {i \in 1..Len(date) : HyphenatedMonthIndex(date, i) # 0}
        i == Least(matches)
        month_int == MONTH_NUMS_LOOKUP(Lower(date[HyphenatedMonthIndex(date, i)].w))
        year == IF month_int < Month(kw.message_timestamp)
                THEN Year(kw.message_timestamp) + 1 ELSE Year(kw.message_timestamp)
        day_part == IF DayPart1(date, i) # "" THEN DayPart1(date, i) ELSE date[i].w
        day == CASE day_part = "early" -> 1
                 [] day_part = "mid" -> 15
                 [] day_part = "late" -> DaysInMonth(year, month_int)
        parsed_date == DT(Ordinal(year, month_int, day), TIME_MIN, "naive")
    IN  IF matches = {} THEN ReturnNone
        ELSE Return(set_as_date(DateTimeInformation,
                                Localize(parsed_date, kw.message_timestamp.tz)))

\* substring in date, for the substrings the rules look up: the words of the
\* vocabulary that hold it
HasSubstring(date, sub) == \E i \in 1..Len(date) : WordCS(date[i], sub)

\* the result of dateparser.parse turned into a value
FromDateparser(parsed_date) ==
    IF parsed_date.s = TIME_MIN
    THEN Return(set_as_date(DateTimeInformation, parsed_date))
    ELSE Return(set_as_exact_datetime(DateTimeInformation, parsed_date))

\* mutant: "next" is handled like "this", no week is added
base_time_qualifier_no_week(date, kw, parsed) ==
    LET parsed_date ==
            IF HasSubstring(date, "next") \/ HasSubstring(date, "this") THEN parsed
            ELSE None
    IN  IF parsed_date.some THEN FromDateparser(parsed_date) ELSE ReturnNone

\* DateConverter._time_qualifier; parsed is what dateparser.parse answers
base_time_qualifier(date, kw, parsed) ==
    LET parsed_date ==
            IF HasSubstring(date, "next")
            THEN IF parsed.some THEN AddDays(parsed, 7) ELSE None
            ELSE IF HasSubstring(date, "this") THEN parsed
            ELSE None
    IN  IF parsed_date.some THEN FromDateparser(parsed_date) ELSE ReturnNone

\* AppointmentDateConverter._time_qualifier; parsed and parsed_around are what
\* dateparser.parse answers to its first and its second call
time_qualifier(date, kw, parsed, parsed_around) ==
    LET parsed_date == base_time_qualifier(date, kw, parsed)
    IN  IF parsed_date.tag = "obj" THEN parsed_date
        ELSE IF HasSubstring(date, "around") /\ parsed_around.some
             THEN FromDateparser(parsed_around)
        ELSE ReturnNone

exception_safe_date_parse(date, kw, parsed) ==
    IF IsShortNumber(date) THEN ReturnNone
    ELSE IF ~parsed.some THEN ReturnNone
    ELSE FromDateparser(parsed)

end_of_month(date, kw) ==
    LET year == Year(kw.message_day)
        month == Month(kw.message_day)
        parsed_date == DT(Ordinal(year, month, DaysInMonth(year, month)), TIME_MIN, "naive")
    IN  IF \E i \in 1..Len(date) :
              /\ date[i].k = "w" /\ date[i].w \in {"end", "weekend"}
              /\ WordCS(At(date, i + 1), "of") /\ At(date, i + 1).sp = 1
              /\ WordCS(At(date, i + 2), "month") /\ At(date, i + 2).sp = 1
        THEN Return(set_as_date(DateTimeInformation,
                                Localize(parsed_date, kw.message_timezone)))
        ELSE ReturnNone

\* the prefix of a word that month_abbrvs matches, in lower case; "" if none
MonthAbbrv(w) ==
    CASE w \in {"jan", "january"} -> "jan"
      [] w \in {"feb", "february"} -> "feb"
      [] w \in {"mar", "march"} -> "mar"
      [] w \in {"apr", "april"} -> "apr"
      [] w = "may" -> "may"
      [] w = "june" -> "june"
      [] w = "july" -> "july"
      [] w \in {"aug", "august"} -> "aug"
      [] w \in {"sep", "september"} -> "sep"
      [] w \in {"oct", "october"} -> "oct"
      [] w \in {"nov", "november"} -> "nov"
      [] w \in {"dec", "december"} -> "dec"
      [] OTHER -> ""

qualifier_exact_month(date, kw) ==
    LET year == Year(kw.message_day)
        qualifier == Lower(At(date, 1).w)
        abbrv == MonthAbbrv(Lower(At(date, 3).w))
        matched == /\ WordIn(At(date, 1), {"beginning", "middle", "end"})
                   /\ At(date, 1).sp = 0
                   /\ Word(At(date, 2), "of") /\ At(date, 2).sp = 1
                   /\ At(date, 3).k = "w" /\ At(date, 3).sp = 1 /\ abbrv # ""
        \* MONTH_NUMS_LOOKUP.get of the text as written
        found == At(date, 3).w = Lower(At(date, 3).w)
        month == MONTH_NUMS_LOOKUP(abbrv)
        day == CASE qualifier = "beginning" -> 1
                 [] qualifier = "middle" -> 15
                 [] qualifier = "end" -> DaysInMonth(year, month)
    IN  IF matched /\ found
        THEN Return(set_as_date(DateTimeInformation,
                                DT(Ordinal(year, month, day), TIME_MIN, "naive")))
        ELSE ReturnNone

asap(date, kw) ==
    IF \/ \E i \in 1..Len(date) : WordIn(date[i], {"asap", "immediate", "immediately"})
       \/ \E i \in 1..Len(date) :
              /\ Word(date[i], "as")
              /\ Word(At(date, i + 1), "soon") /\ At(date, i + 1).sp = 1
              /\ Word(At(date, i + 2), "as") /\ At(date, i + 2).sp = 1
              /\ Word(At(date, i + 3), "possible") /\ At(date, i + 3).sp = 1
    THEN Return(set_as_date(DateTimeInformation, ReplaceTime(kw.message_timestamp, 0, 0)))
    ELSE ReturnNone

\* mutant: the day is taken as written
valid_day_for_month_year_as_written(year, month, day) == day

valid_day_for_month_year(year, month, day) ==
    LET num_days_in_month == DaysInMonth(year, month)
        at_least_one == IF day > 1 THEN day ELSE 1
    IN  IF at_least_one < num_days_in_month THEN at_least_one ELSE num_days_in_month

\* (\d*)(\b|th|rd|nd|st) after the month at i: the digits it captures
MonthDayDigits(date, i) ==
    LET n == At(date, i + 1)
        next == At(date, i + 2)
        closed == \/ n.col > 0
                  \/ i + 2 > Len(date)
                  \/ next.sp = 1
                  \/ next.k = "p"
                  \/ WordIn(next, {"th", "rd", "nd", "st"})
    IN  IF IsNum(n) /\ closed THEN LeadingDigits(n, 4) ELSE <<>>

\* min() over pairs (month, day)
PairLess(a, b) == a[1] < b[1] \/ (a[1] = b[1] /\ a[2] <= b[2])

\* \b(month) *(\d*)(\b|th|rd|nd|st) matches the month written at i
MonthMentionAt(date, i) ==
    /\ WordIn(date[i], MonthKeys)
    /\ BoundaryBefore(date, i)
    /\ IF IsNum(At(date, i + 1))
       THEN MonthDayDigits(date, i) # <<>> \/ At(date, i + 1).sp = 1
       ELSE BoundaryAfter(date, i)

space_delimted_month(date, kw) ==
    LET message_year == Year(kw.message_day)
        message_month == Month(kw.message_day)
        found_months == {i \in 1..Len(date) : MonthMentionAt(date, i)}
        converted_month_days ==
            {<<MONTH_NUMS_LOOKUP(Lower(date[i].w)),
               IF MonthDayDigits(date, i) = <<>> THEN 1
               ELSE DigitsValue(MonthDayDigits(date, i))>> : i \in found_months}
        extracted == CHOOSE a \in converted_month_days :
                        \A b \in converted_month_days : PairLess(a, b)
        year == IF extracted[1] < message_month THEN message_year + 1 ELSE message_year
        parsed_date ==
            DT(Ordinal(year, extracted[1],
                       valid_day_for_month_year(year, extracted[1], extracted[2])),
               TIME_MIN, "naive")
    IN  IF found_months = {} THEN ReturnNone
        ELSE IF HasSubstring(date, "morning") /\ HasSubstring(date, "afternoon")
             THEN Return(set_as_morning_afternoon_datetime(DateTimeInformation, parsed_date))
        ELSE IF HasSubstring(date, "morning")
             THEN Return(set_as_morning_datetime(DateTimeInformation, parsed_date))
        ELSE IF HasSubstring(date, "afternoon")
             THEN Return(set_as_afternoon_datetime(DateTimeInformation, parsed_date))
        ELSE Return(set_as_date(DateTimeInformation, parsed_date))

(***************************************************************************)
(* dateparser.parse is a library outside the repository: what it answers   *)
(* to a text is not fixed here.  It answers None, or a datetime that       *)
(* carries the TIMEZONE of its settings (RETURN_AS_TIMEZONE_AWARE), on a   *)
(* day counted from RELATIVE_BASE.                                         *)
(***************************************************************************)
DateparserDayOffsets == {0, 5}
DateparserTimes == {TIME_MIN, TimeOf(3, 0, 0)}

DateparserZones(settings) ==
    IF settings.TIMEZONE \in KnownZones THEN {settings.TIMEZONE} ELSE KnownZones

DateparserResults(settings) ==
    {None} \cup {DT(settings.RELATIVE_BASE.d + k, s, tz) :
                    k \in DateparserDayOffsets, s \in DateparserTimes,
                    tz \in DateparserZones(settings)}

(***************************************************************************)
(* AppointmentDateConverter.__init__: the sieve                            *)
(***************************************************************************)
filter_sieve_order ==
    << "_weekday_converter", "_early_mid_late_month", "_time_qualifier",
       "_tomorrow_qualifier_time", "_today_qualifier_time", "_time_range_between",
       "_time_range", "_singular_digit", "_hour_range_month_date",
       "_exception_safe_date_parse", "_weekend_converter", "_end_of_month",
       "_qualifier_exact_month", "_asap", "_space_delimted_month", "_time_of_day" >>

\* function(date, **kwarg_set): the outcomes the call can have
RuleOutcomes(function, date, kw, am_to_pm_threshold) ==
    CASE function = "_weekday_converter" -> {weekday_converter(date, kw)}
      [] function = "_early_mid_late_month" -> {early_mid_late_month(date, kw)}
      [] function = "_time_qualifier" ->
            {time_qualifier(date, kw, p, q) :
                p \in DateparserResults(kw.dateparser_settings),
                q \in DateparserResults(kw.dateparser_settings)}
      [] function = "_tomorrow_qualifier_time" ->
            {tomorrow_qualifier_time(date, kw, am_to_pm_threshold)}
      [] function = "_today_qualifier_time" ->
            {today_qualifier_time(date, kw, am_to_pm_threshold)}
      [] function = "_time_range_between" ->
            {time_range_between(date, kw, am_to_pm_threshold)}
      [] function = "_time_range" -> {time_range(date, kw, am_to_pm_threshold)}
      [] function = "_singular_digit" -> {singular_digit(date, kw, am_to_pm_threshold)}
      [] function = "_hour_range_month_date" ->
            {hour_range_month_date(date, kw, am_to_pm_threshold)}
      [] function = "_exception_safe_date_parse" ->
            {exception_safe_date_parse(date, kw, p) :
                p \in DateparserResults(kw.dateparser_settings)}
      [] function = "_weekend_converter" -> {weekend_converter(date, kw)}
      [] function = "_end_of_month" -> {end_of_month(date, kw)}
      [] function = "_qualifier_exact_month" -> {qualifier_exact_month(date, kw)}
      [] function = "_asap" -> {asap(date, kw)}
      [] function = "_space_delimted_month" -> {space_delimted_month(date, kw)}
      [] function = "_time_of_day" -> {time_of_day(date, kw, am_to_pm_threshold)}

\* what the trace keeps of an outcome
OutcomeName(out) == IF out.tag = "raise" THEN out.e ELSE out.tag

(***************************************************************************)
(* The phrases, timestamps, timezone identifiers and thresholds handed to  *)
(* parse_date                                                              *)
(***************************************************************************)
\* a phrase from its tokens: the first token has no blank before it
Phrase(tokens) == <<Glued(tokens[1])>> \o Tail(tokens)

\* a clock time: "3", "3pm"
ClockTime(hour, qualifier) ==
    IF qualifier = "" THEN <<Nm(Digits(hour))>>
    ELSE <<Nm(Digits(hour)), Glued(Wd(qualifier))>>

\* "today at 3", "tomorrow at 10pm or later", ...
QualifierPhrases ==
    {Phrase(<<Wd(day), Wd("at")>> \o ClockTime(hour, qualifier) \o suffix) :
        day \in {"today", "tomorrow"}, hour \in {3, 10}, qualifier \in {"", "pm"},
        suffix \in {<<>>, <<Wd("or"), Wd("later")>>, <<Wd("or"), Wd("earlier")>>}}
    \cup {Phrase(<<Nm(<<3>>), Wd("tomorrow")>>),
          Phrase(<<Wd("today"), Wd("at"), NmColon(<<3>>, 1)>>),
          Phrase(<<Wd("today"), Wd("at"), NmColon(<<3, 3, 0>>, 1)>>),
          Phrase(<<Wd("today"), Wd("at"), Nm(<<2, 5>>)>>),
          Phrase(<<Wd("tomorrow"), Wd("around"), Nm(<<5>>)>>)}

\* "1pm to 3pm", "1 to 3 on feb 3", "10-9", "0 to 1", ...
BetweenPhrases ==
    {Phrase(ClockTime(hours[1], qualifier) \o <<Wd("to")>>
                \o ClockTime(hours[2], qualifier) \o tail) :
        hours \in {<<1, 3>>, <<10, 9>>, <<0, 1>>}, qualifier \in {"", "pm"},
        tail \in {<<>>, <<Wd("on"), Wd("feb"), Nm(<<3>>)>>, <<Wd("tomorrow")>>}}
    \cup {Phrase(<<Nm(<<1>>), Glued(Wd("pm")), Wd("to"), Nm(<<3>>), Glued(Wd("pm")),
                   Wd("on"), Wd("Feb"), Nm(<<3>>)>>),
          Phrase(<<Nm(<<1>>), Wd("to"), Nm(<<3>>), Wd("on"), Wd("feb"), Nm(<<3, 0>>)>>)}

\* "1pm to 3pm on feb 3"
PmRangePhrase(hour1, hour2, month, day) ==
    Phrase(ClockTime(hour1, "pm") \o <<Wd("to")>> \o ClockTime(hour2, "pm")
               \o <<Wd("on"), Wd(month), Nm(Digits(day))>>)

\* the hours of the phrases "H1pm to H2pm on <month> <day>"
PmHours == {1, 3, 8, 9, 11}

\* "H1pm to H2pm on <month> <day>" with H1 before H2
PmRangePhrases ==
    {PmRangePhrase(hours[1], hours[2], on[1], on[2]) :
        hours \in {pair \in PmHours \X PmHours : pair[1] < pair[2]},
        on \in {<<"feb", 3>>, <<"Feb", 3>>, <<"sep", 11>>}}

\* "before 3pm", "after 5", "7pm or later"
RangePhrases ==
    {Phrase(<<Wd(prep)>> \o ClockTime(3, qualifier) \o tail) :
        prep \in {"before", "after"}, qualifier \in {"", "pm", "am"},
        tail \in {<<>>, <<Wd("tomorrow")>>}}
    \cup {Phrase(<<Nm(<<7>>), Glued(Wd("pm")), Wd("or"), Wd("later")>>)}

\* "9", "0", "3", "12", "23", "25", "130"
DigitPhrases ==
    {Phrase(<<Nm(ds)>>) :
        ds \in {<<9>>, <<0>>, <<3>>, <<1, 2>>, <<2, 3>>, <<2, 5>>, <<1, 3, 0>>}}

\* "3pm-4pm - sep 11" and its kin
ListPhrases ==
    {Phrase(ClockTime(hours[1], "pm") \o <<Glued(Pn("-"))>>
                \o <<Glued(Nm(Digits(hours[2]))), Glued(Wd("pm"))>>
                \o <<Pn("-"), Wd(month), Nm(<<1, 1>>)>>) :
        hours \in {<<3, 4>>, <<4, 3>>}, month \in {"sep", "Sep"}}
    \cup {Phrase(<<Nm(<<3>>), Glued(Wd("pm")), Wd(month), Nm(day)>>) :
            month \in {"sep", "Sep", "feb"}, day \in {<<1, 1>>, <<3, 0>>}}
    \cup {Phrase(<<Nm(<<3>>), Glued(Wd("PM")), Wd("sep"), Nm(<<1, 1>>)>>)}

\* the phrases of the day-level rules
DayPhrases ==
    { Phrase(<<Wd("this"), Wd("week")>>),
      Phrase(<<Wd("this"), Wd("weekend")>>),
      Phrase(<<Wd("this"), Wd("friday")>>),
      Phrase(<<Wd("next"), Wd("monday"), Wd("at"), Nm(<<3>>)>>),
      Phrase(<<Wd("early"), Wd("march")>>),
      Phrase(<<Wd("mid"), Wd("march")>>),
      Phrase(<<Wd("late"), Glued(Pn("-")), Glued(Wd("Feb"))>>),
      Phrase(<<Wd("end"), Wd("of"), Wd("month")>>),
      Phrase(<<Wd("end"), Wd("of"), Wd("april")>>),
      Phrase(<<Wd("beginning"), Wd("of"), Wd("Feb")>>),
      Phrase(<<Wd("middle"), Wd("of"), Wd("june")>>),
      Phrase(<<Wd("asap")>>),
      Phrase(<<Wd("as"), Wd("soon"), Wd("as"), Wd("possible")>>),
      Phrase(<<Wd("march"), Nm(<<1>>)>>),
      Phrase(<<Wd("march"), Nm(<<5>>), Glued(Wd("th"))>>),
      Phrase(<<Wd("feb"), Nm(<<3, 0>>)>>),
      Phrase(<<Wd("dec"), Nm(<<5>>), Wd("or"), Wd("jan"), Nm(<<3>>)>>),
      Phrase(<<Wd("oct"), Nm(<<2>>), Wd("morning")>>),
      Phrase(<<Wd("oct"), Nm(<<2>>), Wd("morning"), Wd("or"), Wd("afternoon")>>),
      Phrase(<<Wd("tomorrow"), Wd("morning")>>),
      Phrase(<<Wd("Tomorrow"), Wd("morning")>>),
      Phrase(<<Wd("today"), Pn("-"), Wd("morning"), Wd("or"), Wd("afternoon")>>),
      Phrase(<<Wd("afternoon"), Wd("today")>>),
      Phrase(<<Wd("tomorrow"), Wd("evening")>>),
      Phrase(<<Wd("morning")>>),
      Phrase(<<Wd("hello")>>) }

Phrases ==
    QualifierPhrases \cup BetweenPhrases \cup PmRangePhrases \cup RangePhrases
        \cup DigitPhrases \cup ListPhrases \cup DayPhrases

\* Wednesday 2024-01-10 and Friday 2024-04-12
MessageDays == {Ordinal(2024, 1, 10), Ordinal(2024, 4, 12)}
MessageTimes == {TIME_MIN, TimeOf(9, 0, 0), TimeOf(16, 30, 0)}
MessageTimestamps == {DT(d, s, "US/Eastern") : d \in MessageDays, s \in MessageTimes}

\* the timezone identifiers; the last one is unknown to pytz
CommunityTimezones == {"US/Eastern", "US/Pacific", "Mars/Olympus"}

\* am_to_pm_threshold: 8 in the tools, 9 by default, 11, noon, and one above noon
Thresholds == {8, 9, 11, 12, 13}

(***************************************************************************)
(* DateConverter.parse_date on an AppointmentDateConverter                 *)
(***************************************************************************)
\* no DateTimeInformation object is under test
DtiIdle ==
    /\ dti = DateTimeInformation
    /\ lastOp = Called("__init__")

Init ==
    /\ DtiIdle
    /\ TransformIdle
    /\ ThreadsIdle
    /\ arg_date \in Phrases
    /\ message_timestamp \in MessageTimestamps
    /\ community_timezone \in CommunityTimezones
    /\ self_am_to_pm_threshold \in Thresholds
    /\ pc = "call"
    /\ kwarg_set = None
    /\ idx = 0
    /\ datetime_format_date = ReturnNone
    /\ trace = <<>>
    /\ rule_value = DateTimeInformation

\* pytz.timezone(community_timezone), with the fallback of the except clause
ResolveTimezone(timezone) == IF timezone \in KnownZones THEN timezone ELSE "US/Eastern"

\* the dictionary dateparser_settings
DateparserSettings(timezone, relative_base) ==
    [TIMEZONE |-> timezone, RETURN_AS_TIMEZONE_AWARE |-> TRUE,
     RELATIVE_BASE |-> relative_base, PREFER_DATES_FROM |-> "future"]

\* the statements of parse_date before its loop
ParseDateBegin ==
    /\ pc = "call"
    /\ \E date_context \in {None, DT(message_timestamp.d + 1, TIME_MIN, "naive")} :
        LET message_timezone == ResolveTimezone(community_timezone)
            message_day == ReplaceTime([message_timestamp EXCEPT !.s = 0], 0, 0)
            relative_base ==
                IF date_context # None THEN date_context
                ELSE [message_day EXCEPT !.tz = "naive"]
        IN  kwarg_set' =
                [message_day |-> message_day,
                 message_timestamp |-> message_timestamp,
                 message_timezone |-> message_timezone,
                 dateparser_settings |->
                     DateparserSettings(community_timezone, relative_base)]
    /\ idx' = 1
    /\ pc' = "sieve"
    /\ UNCHANGED auxVars
    /\ UNCHANGED <<dti, lastOp, arg_date, message_timestamp, community_timezone,
                   self_am_to_pm_threshold, datetime_format_date, trace, rule_value>>

\* mutant: the loop calls the next rule whatever datetime_format_date holds
CallRule_after_result ==
    /\ pc = "sieve"
    /\ idx <= Len(filter_sieve_order)
    /\ \E out \in RuleOutcomes(filter_sieve_order[idx], arg_date, kwarg_set,
                               self_am_to_pm_threshold) :
        /\ trace' = Append(trace, OutcomeName(out))
        /\ IF out.tag = "obj"
           THEN /\ datetime_format_date' = out
                /\ rule_value' = out.v
                /\ idx' = idx + 1
                /\ pc' = pc
           ELSE IF out.tag = "None" \/ out.e = "ValueError"
           THEN /\ idx' = idx + 1
                /\ UNCHANGED <<datetime_format_date, rule_value, pc>>
           ELSE /\ pc' = "raised"
                /\ UNCHANGED <<datetime_format_date, rule_value, idx>>
    /\ UNCHANGED auxVars
    /\ UNCHANGED <<dti, lastOp, arg_date, message_timestamp, community_timezone,
                   self_am_to_pm_threshold, kwarg_set>>

\* one turn of the loop with datetime_format_date still None: the rule is called
CallRule ==
    /\ pc = "sieve"
    /\ idx <= Len(filter_sieve_order)
    /\ datetime_format_date.tag = "None"
    /\ \E out \in RuleOutcomes(filter_sieve_order[idx], arg_date, kwarg_set,
                               self_am_to_pm_threshold) :
        /\ trace' = Append(trace, OutcomeName(out))
        /\ IF out.tag = "obj"
           THEN /\ datetime_format_date' = out
                /\ rule_value' = out.v
                /\ idx' = idx + 1
                /\ pc' = pc
           ELSE IF out.tag = "None" \/ out.e = "ValueError"
           THEN /\ idx' = idx + 1
                /\ UNCHANGED <<datetime_format_date, rule_value, pc>>
           ELSE /\ pc' = "raised"
                /\ UNCHANGED <<datetime_format_date, rule_value, idx>>
    /\ UNCHANGED auxVars
    /\ UNCHANGED <<dti, lastOp, arg_date, message_timestamp, community_timezone,
                   self_am_to_pm_threshold, kwarg_set>>

\* one turn of the loop with datetime_format_date not None: break
Break ==
    /\ pc = "sieve"
    /\ idx <= Len(filter_sieve_order)
    /\ datetime_format_date.tag # "None"
    /\ pc' = "sieved"
    /\ UNCHANGED auxVars
    /\ UNCHANGED <<dti, lastOp, arg_date, message_timestamp, community_timezone,
                   self_am_to_pm_threshold, kwarg_set, idx, datetime_format_date, trace,
                   rule_value>>

\* the loop has gone through the whole sieve
Exhausted ==
    /\ pc = "sieve"
    /\ idx > Len(filter_sieve_order)
    /\ pc' = "sieved"
    /\ UNCHANGED auxVars
    /\ UNCHANGED <<dti, lastOp, arg_date, message_timestamp, community_timezone,
                   self_am_to_pm_threshold, kwarg_set, idx, datetime_format_date, trace,
                   rule_value>>

\* if datetime_format_date: the value is not None and its __bool__ is true
IsTruthy(out) == out.tag = "obj" /\ Truthy(out.v)

\* AppointmentDateConverter._postprocess_date as a whole
postprocess_date(date, message_timestamp_val, message_timezone, am_to_pm_threshold) ==
    push_to_next_day_if_before_time(
        push_dates_above_threshold(localize_to_timezone(date, message_timezone),
                                   am_to_pm_threshold),
        message_timestamp_val)

\* _postprocess_date, first statement
PostprocessLocalize ==
    /\ pc = "sieved"
    /\ IsTruthy(datetime_format_date)
    /\ datetime_format_date' =
           Return(localize_to_timezone(datetime_format_date.v, kwarg_set.message_timezone))
    /\ pc' = "localized"
    /\ UNCHANGED auxVars
    /\ UNCHANGED <<dti, lastOp, arg_date, message_timestamp, community_timezone,
                   self_am_to_pm_threshold, kwarg_set, idx, trace, rule_value>>

\* mutant: the forward roll is applied before the 12-hour push
PostprocessPush_after_roll ==
    /\ pc = "localized"
    /\ datetime_format_date' =
           Return(push_dates_above_threshold(
                      push_to_next_day_if_before_time(datetime_format_date.v,
                                                      message_timestamp),
                      self_am_to_pm_threshold))
    /\ pc' = "pushed"
    /\ UNCHANGED auxVars
    /\ UNCHANGED <<dti, lastOp, arg_date, message_timestamp, community_timezone,
                   self_am_to_pm_threshold, kwarg_set, idx, trace, rule_value>>

\* _postprocess_date, second statement
PostprocessPush ==
    /\ pc = "localized"
    /\ datetime_format_date' =
           Return(push_dates_above_threshold(datetime_format_date.v,
                                             self_am_to_pm_threshold))
    /\ pc' = "pushed"
    /\ UNCHANGED auxVars
    /\ UNCHANGED <<dti, lastOp, arg_date, message_timestamp, community_timezone,
                   self_am_to_pm_threshold, kwarg_set, idx, trace, rule_value>>

\* _postprocess_date, third statement, and the return of parse_date
PostprocessRoll ==
    /\ pc = "pushed"
    /\ IF push_to_next_day_raises(datetime_format_date.v, message_timestamp)
       THEN /\ pc' = "raised"
            /\ trace' = Append(trace, "TypeError")
            /\ UNCHANGED datetime_format_date
       ELSE /\ datetime_format_date' =
                   Return(push_to_next_day_if_before_time(datetime_format_date.v,
                                                          message_timestamp))
            /\ pc' = "returned"
            /\ UNCHANGED trace
    /\ UNCHANGED auxVars
    /\ UNCHANGED <<dti, lastOp, arg_date, message_timestamp, community_timezone,
                   self_am_to_pm_threshold, kwarg_set, idx, rule_value>>

\* the value is None or falsy: parse_date returns it as it is
ReturnUnprocessed ==
    /\ pc = "sieved"
    /\ ~IsTruthy(datetime_format_date)
    /\ pc' = "returned"
    /\ UNCHANGED auxVars
    /\ UNCHANGED <<dti, lastOp, arg_date, message_timestamp, community_timezone,
                   self_am_to_pm_threshold, kwarg_set, idx, datetime_format_date, trace,
                   rule_value>>

Next ==
    \/ ParseDateBegin
    \/ CallRule
    \/ Break
    \/ Exhausted
    \/ PostprocessLocalize
    \/ PostprocessPush
    \/ PostprocessRoll
    \/ ReturnUnprocessed

Spec == Init /\ [][Next]_vars

(***************************************************************************)
(* DateConverter._clean_date and transform_dates_to_date_time_info         *)
(***************************************************************************)
\* two tokens written with no blank between them that read as one token
Joins(a, b) == b.sp = 0 /\ a.k = b.k /\ a.k \in {"w", "n"}

Join(a, b) ==
    [a EXCEPT !.w = a.w \o b.w,
              !.ds = a.ds \o b.ds,
              !.col = IF a.col > 0 THEN a.col
                      ELSE IF b.col > 0 THEN Len(a.ds) + b.col ELSE 0]

RECURSIVE Retokenise(_)
\* the tokens of a text whose tokens were changed: neighbours that touch are joined
Retokenise(string) ==
    IF Len(string) <= 1 THEN string
    ELSE LET front == Retokenise(SubSeq(string, 1, Len(string) - 1))
             a == front[Len(front)]
             b == string[Len(string)]
         IN  IF Joins(a, b)
             THEN SubSeq(front, 1, Len(front) - 1) \o <<Join(a, b)>>
             ELSE front \o <<b>>

\* the marks matched by clean_date_pattern, [\(,\)]
CleanDateMarks == {"(", ",", ")"}

RECURSIVE RemoveMarks(_, _, _)
\* re.sub(self.clean_date_pattern, "", string): a mark is taken out, and what
\* follows it has the blanks of both before it
RemoveMarks(string, i, blanks) ==
    IF i > Len(string) THEN <<>>
    ELSE IF string[i].k = "p" /\ string[i].w \in CleanDateMarks
         THEN RemoveMarks(string, i + 1, blanks + string[i].sp)
         ELSE <<[string[i] EXCEPT !.sp = @ + blanks]>> \o RemoveMarks(string, i + 1, 0)

\* replace(" a.m.", "am").replace("a.m.", "am"), and the same for p.m.: the
\* word loses its dots and one blank before it
ReplaceMeridiem(t) ==
    IF t.k = "w" /\ t.w \in {"a.m.", "p.m."}
    THEN [t EXCEPT !.w = IF t.w = "a.m." THEN "am" ELSE "pm",
                   !.sp = IF @ > 0 THEN @ - 1 ELSE 0]
    ELSE t

\* DateConverter._clean_date
clean_date(string) ==
    LET message == RemoveMarks(string, 1, 0)
        replaced == [i \in 1..Len(message) |-> ReplaceMeridiem(message[i])]
        lowered == [i \in 1..Len(replaced) |->
                       IF replaced[i].k = "w" THEN [replaced[i] EXCEPT !.w = Lower(@)]
                       ELSE replaced[i]]
    IN  Retokenise(lowered)

\* the phrases handed to transform_dates_to_date_time_info, as the user wrote
\* them: "3pm Sep 11", "(tomorrow) at 3", "march 1,", "today at 3 p.m.",
\* "10 to 9 on feb 3", "hello"
RawPhrases ==
    { Phrase(<<Nm(<<3>>), Glued(Wd("pm")), Wd("Sep"), Nm(<<1, 1>>)>>),
      Phrase(<<Pn("("), Glued(Wd("tomorrow")), Glued(Pn(")")), Wd("at"), Nm(<<3>>)>>),
      Phrase(<<Wd("march"), Nm(<<1>>), Glued(Pn(","))>>),
      Phrase(<<Wd("today"), Wd("at"), Nm(<<3>>), Wd("p.m.")>>),
      Phrase(<<Nm(<<1, 0>>), Wd("to"), Nm(<<9>>), Wd("on"), Wd("feb"), Nm(<<3>>)>>),
      Phrase(<<Wd("hello")>>) }

\* the longest list dates
MaxDates == 2

RECURSIVE ListsUpTo(_, _)
\* the lists of at most n elements of S
ListsUpTo(S, n) ==
    IF n = 0 THEN {<<>>}
    ELSE LET shorter == ListsUpTo(S, n - 1)
         IN  shorter \cup {Append(l, x) : l \in shorter, x \in S}

InitTransform ==
    /\ DtiIdle
    /\ ThreadsIdle
    /\ self_clean_date \in BOOLEAN
    /\ dates \in ListsUpTo(RawPhrases, MaxDates)
    /\ date_pos = 0
    /\ datetime_info_list = <<>>
    /\ parsed_dates = <<>>
    /\ arg_date = <<>>
    /\ message_timestamp = DT(Ordinal(2024, 1, 10), TimeOf(9, 0, 0), "US/Eastern")
    /\ community_timezone \in {"US/Eastern", "US/Pacific"}
    /\ self_am_to_pm_threshold = 8
    /\ pc = "loop"
    /\ kwarg_set = None
    /\ idx = 0
    /\ datetime_format_date = ReturnNone
    /\ trace = <<>>
    /\ rule_value = DateTimeInformation

\* one turn of the loop over dates, up to the call of parse_date
TransformTake ==
    /\ pc = "loop"
    /\ date_pos < Len(dates)
    /\ arg_date' = IF self_clean_date THEN clean_date(dates[date_pos + 1])
                   ELSE dates[date_pos + 1]
    /\ pc' = "call"
    /\ kwarg_set' = None
    /\ idx' = 0
    /\ datetime_format_date' = ReturnNone
    /\ trace' = <<>>
    /\ rule_value' = DateTimeInformation
    /\ UNCHANGED <<dti, lastOp, message_timestamp, community_timezone,
                   self_am_to_pm_threshold, transformVars, threadVars>>

\* parse_date has returned: the rest of the turn of the loop
TransformAppend ==
    /\ pc = "returned"
    /\ date_pos < Len(dates)
    /\ parsed_dates' = Append(parsed_dates, datetime_format_date)
    /\ datetime_info_list' =
           IF IsTruthy(datetime_format_date)
           THEN Append(datetime_info_list,
                       replace_timezone(datetime_format_date.v, "naive"))
           ELSE datetime_info_list
    /\ date_pos' = date_pos + 1
    /\ pc' = "loop"
    /\ UNCHANGED <<dti, lastOp, arg_date, message_timestamp, community_timezone,
                   self_am_to_pm_threshold, kwarg_set, idx, datetime_format_date, trace,
                   rule_value, self_clean_date, dates, threadVars>>

\* the loop is over: return datetime_info_list
TransformReturn ==
    /\ pc = "loop"
    /\ date_pos = Len(dates)
    /\ pc' = "done"
    /\ UNCHANGED <<dti, lastOp, arg_date, message_timestamp, community_timezone,
                   self_am_to_pm_threshold, kwarg_set, idx, datetime_format_date, trace,
                   rule_value, auxVars>>

NextTransform ==
    \/ TransformTake
    \/ ParseDateBegin
    \/ CallRule
    \/ Break
    \/ Exhausted
    \/ PostprocessLocalize
    \/ PostprocessPush
    \/ PostprocessRoll
    \/ ReturnUnprocessed
    \/ TransformAppend
    \/ TransformReturn

SpecTransform == InitTransform /\ [][NextTransform]_vars

(***************************************************************************)
(* Concurrent calls of parse_date on one shared AppointmentDateConverter.  *)
(* The converter's attributes are shared; the locals of each call are its  *)
(* own; a DateTimeInformation object lives on the heap and a call holds a  *)
(* reference to it, so that the in-place updates of _postprocess_date      *)
(* would be seen by every call holding the same reference.                 *)
(***************************************************************************)
NumThreads == 2
Threads == 1..NumThreads

\* the arguments (date, message_timestamp, community_timezone) of the calls
ConcurrentArguments ==
    { <<Phrase(<<Nm(<<3>>)>>), DT(Ordinal(2024, 1, 10), TimeOf(16, 30, 0), "US/Eastern"),
        "US/Eastern">>,
      <<Phrase(<<Nm(<<3>>)>>), DT(Ordinal(2024, 1, 10), TimeOf(9, 0, 0), "US/Eastern"),
        "US/Pacific">>,
      <<Phrase(<<Nm(<<1, 0>>), Wd("to"), Nm(<<9>>)>>),
        DT(Ordinal(2024, 4, 12), TIME_MIN, "US/Eastern"), "Mars/Olympus">> }

\* the keyword arguments parse_date builds before its loop (no date_context)
KwargSet(message_timestamp_val, timezone) ==
    LET message_day == ReplaceTime([message_timestamp_val EXCEPT !.s = 0], 0, 0)
    IN  [message_day |-> message_day,
         message_timestamp |-> message_timestamp_val,
         message_timezone |-> ResolveTimezone(timezone),
         dateparser_settings |->
             DateparserSettings(timezone, [message_day EXCEPT !.tz = "naive"])]

\* mutant: DateTimeInformation() hands out the object created last, if there is one
Allocate_shared(heap_val, t, v) ==
    IF heap_val = <<>> THEN <<[creator |-> t, v |-> v]>>
    ELSE [heap_val EXCEPT ![Len(heap_val)].v = v]

\* DateTimeInformation() in a rule: a new object, set by the rule's set_as_ call
Allocate(heap_val, t, v) == Append(heap_val, [creator |-> t, v |-> v])

\* the locals of a call at its entry; datetime_format_date is 0 for None, else a reference
CallEntry(arguments) ==
    [date |-> arguments[1], message_timestamp |-> arguments[2],
     community_timezone |-> arguments[3], pc |-> "call", kwarg_set |-> None, idx |-> 0,
     datetime_format_date |-> 0, exc |-> "none"]

InitConcurrent ==
    /\ DtiIdle
    /\ TransformIdle
    /\ arg_date = <<>>
    /\ message_timestamp = None
    /\ community_timezone = ""
    /\ self_am_to_pm_threshold = 9
    /\ pc = "idle"
    /\ kwarg_set = None
    /\ idx = 0
    /\ datetime_format_date = ReturnNone
    /\ trace = <<>>
    /\ rule_value = DateTimeInformation
    /\ calls \in [Threads -> {CallEntry(arguments) : arguments \in ConcurrentArguments}]
    /\ heap = <<>>

\* what the thread actions leave alone: the converter and everything outside the calls
ThreadFrame == UNCHANGED <<dtiVars, parseVars, transformVars>>

\* call t: the statements of parse_date before its loop
ThreadBegin(t) ==
    /\ calls[t].pc = "call"
    /\ calls' = [calls EXCEPT
                    ![t].kwarg_set = KwargSet(calls[t].message_timestamp,
                                              calls[t].community_timezone),
                    ![t].idx = 1,
                    ![t].pc = "sieve"]
    /\ UNCHANGED heap
    /\ ThreadFrame

\* call t: one turn of the loop with datetime_format_date still None
ThreadCallRule(t) ==
    /\ calls[t].pc = "sieve"
    /\ calls[t].idx <= Len(filter_sieve_order)
    /\ calls[t].datetime_format_date = 0
    /\ \E out \in RuleOutcomes(filter_sieve_order[calls[t].idx], calls[t].date,
                               calls[t].kwarg_set, self_am_to_pm_threshold) :
        IF out.tag = "obj"
        THEN /\ heap' = Allocate(heap, t, out.v)
             /\ calls' = [calls EXCEPT ![t].datetime_format_date = Len(heap'),
                                       ![t].idx = @ + 1]
        ELSE IF out.tag = "None" \/ out.e = "ValueError"
        THEN /\ calls' = [calls EXCEPT ![t].idx = @ + 1]
             /\ UNCHANGED heap
        ELSE /\ calls' = [calls EXCEPT ![t].pc = "raised", ![t].exc = out.e]
             /\ UNCHANGED heap
    /\ ThreadFrame

\* call t: the loop breaks on a value that is not None, or runs out of rules
ThreadLoopEnd(t) ==
    /\ calls[t].pc = "sieve"
    /\ calls[t].datetime_format_date # 0 \/ calls[t].idx > Len(filter_sieve_order)
    /\ calls' = [calls EXCEPT ![t].pc = "sieved"]
    /\ UNCHANGED heap
    /\ ThreadFrame

\* the object call t holds (an empty one stands in when it holds None)
Held(t) ==
    IF calls[t].datetime_format_date \in 1..Len(heap)
    THEN heap[calls[t].datetime_format_date].v
    ELSE DateTimeInformation

\* the call that created the object call t holds (0 when it holds None)
Creator(t) ==
    IF calls[t].datetime_format_date \in 1..Len(heap)
    THEN heap[calls[t].datetime_format_date].creator
    ELSE 0

\* call t: date.localize_to_timezone(message_timezone), in place
ThreadLocalize(t) ==
    /\ calls[t].pc = "sieved"
    /\ calls[t].datetime_format_date # 0
    /\ Truthy(Held(t))
    /\ heap' = [heap EXCEPT ![calls[t].datetime_format_date].v =
                    localize_to_timezone(@, calls[t].kwarg_set.message_timezone)]
    /\ calls' = [calls EXCEPT ![t].pc = "localized"]
    /\ ThreadFrame

\* call t: date.push_dates_above_threshold(self.am_to_pm_threshold), in place
ThreadPush(t) ==
    /\ calls[t].pc = "localized"
    /\ heap' = [heap EXCEPT ![calls[t].datetime_format_date].v =
                    push_dates_above_threshold(@, self_am_to_pm_threshold)]
    /\ calls' = [calls EXCEPT ![t].pc = "pushed"]
    /\ ThreadFrame

\* call t: date.push_to_next_day_if_before_time(message_timestamp), in place, and return
ThreadRoll(t) ==
    /\ calls[t].pc = "pushed"
    /\ IF push_to_next_day_raises(Held(t), calls[t].message_timestamp)
       THEN /\ calls' = [calls EXCEPT ![t].pc = "raised", ![t].exc = "TypeError"]
            /\ UNCHANGED heap
       ELSE /\ heap' = [heap EXCEPT ![calls[t].datetime_format_date].v =
                           push_to_next_day_if_before_time(@, calls[t].message_timestamp)]
            /\ calls' = [calls EXCEPT ![t].pc = "returned"]
    /\ ThreadFrame

\* call t: the value is None or falsy and is returned as it is
ThreadReturnUnprocessed(t) ==
    /\ calls[t].pc = "sieved"
    /\ calls[t].datetime_format_date = 0 \/ ~Truthy(Held(t))
    /\ calls' = [calls EXCEPT ![t].pc = "returned"]
    /\ UNCHANGED heap
    /\ ThreadFrame

NextConcurrent ==
    \/ \E t \in Threads : ThreadBegin(t)
    \/ \E t \in Threads : ThreadCallRule(t)
    \/ \E t \in Threads : ThreadLoopEnd(t)
    \/ \E t \in Threads : ThreadLocalize(t)
    \/ \E t \in Threads : ThreadPush(t)
    \/ \E t \in Threads : ThreadRoll(t)
    \/ \E t \in Threads : ThreadReturnUnprocessed(t)

SpecConcurrent == InitConcurrent /\ [][NextConcurrent]_vars

(***************************************************************************)
(* The move-in-date variant.  tools/preferences.py and tools/listings.py   *)
(* construct MoveInDateConverter() and call its                            *)
(* transform_dates_to_date_time_info; the class itself is not part of      *)
(* dates.py.  It is taken here as the specification describes it: the      *)
(* machinery of DateConverter with a rule list restricted to the rules     *)
(* that are not clock-time rules, and the postprocessing hook of the base  *)
(* class, which changes nothing.                                           *)
(***************************************************************************)
\* the rules AppointmentDateConverter defines on top of DateConverter: clock times
ClockTimeRules ==
    {"_tomorrow_qualifier_time", "_today_qualifier_time", "_time_range_between",
     "_time_range", "_singular_digit", "_hour_range_month_date", "_time_of_day"}

\* the rule list of the variant: the rules DateConverter itself defines
move_in_filter_sieve_order ==
    SelectSeq(filter_sieve_order, LAMBDA function : function \notin ClockTimeRules)

\* function(date, **kwarg_set) on a direct subclass of DateConverter: _time_qualifier
\* is the method of the base class, the other rules take no threshold
MoveInRuleOutcomes(function, date, kw) ==
    IF function = "_time_qualifier"
    THEN {base_time_qualifier(date, kw, p) : p \in DateparserResults(kw.dateparser_settings)}
    ELSE RuleOutcomes(function, date, kw, 0)

\* mutant: the variant pushes the hours below the default threshold like the
\* appointment variant
move_in_postprocess_date_pushing(date, message_timestamp_val, message_timezone) ==
    push_dates_above_threshold(date, 9)

\* DateConverter._postprocess_date, the hook the variant keeps
move_in_postprocess_date(date, message_timestamp_val, message_timezone) == date

\* what the tools ask for: day-level phrases, and phrases about clock times
MoveInPhrases ==
    { Phrase(<<Wd("march"), Nm(<<1>>)>>),
      Phrase(<<Wd("feb"), Nm(<<3, 0>>)>>),
      Phrase(<<Wd("end"), Wd("of"), Wd("month")>>),
      Phrase(<<Wd("early"), Wd("march")>>),
      Phrase(<<Wd("this"), Wd("weekend")>>),
      Phrase(<<Wd("asap")>>),
      Phrase(<<Wd("oct"), Nm(<<2>>), Wd("morning")>>),
      Phrase(<<Nm(<<3>>)>>),
      Phrase(<<Wd("tomorrow"), Wd("at"), Nm(<<3>>)>>),
      Phrase(<<Wd("hello")>>) }

\* _get_move_in_date up to the call of parse_date on the only phrase of its list;
\* message_timestamp is datetime.now(tz=pytz.UTC)
InitMoveIn ==
    /\ DtiIdle
    /\ TransformIdle
    /\ ThreadsIdle
    /\ arg_date \in MoveInPhrases
    /\ message_timestamp \in {DT(d, s, "UTC") : d \in MessageDays,
                                s \in {TimeOf(9, 0, 0), TimeOf(16, 30, 0)}}
    /\ community_timezone \in {"US/Eastern", "US/Pacific"}
    /\ self_am_to_pm_threshold = 0
    /\ pc = "call"
    /\ kwarg_set = None
    /\ idx = 0
    /\ datetime_format_date = ReturnNone
    /\ trace = <<>>
    /\ rule_value = DateTimeInformation

\* one turn of the loop with datetime_format_date still None: the rule is called
MoveInCallRule ==
    /\ pc = "sieve"
    /\ idx <= Len(move_in_filter_sieve_order)
    /\ datetime_format_date.tag = "None"
    /\ \E out \in MoveInRuleOutcomes(move_in_filter_sieve_order[idx], arg_date, kwarg_set) :
        /\ trace' = Append(trace, OutcomeName(out))
        /\ IF out.tag = "obj"
           THEN /\ datetime_format_date' = out
                /\ rule_value' = out.v
                /\ idx' = idx + 1
                /\ pc' = pc
           ELSE IF out.tag = "None" \/ out.e = "ValueError"
           THEN /\ idx' = idx + 1
                /\ UNCHANGED <<datetime_format_date, rule_value, pc>>
           ELSE /\ pc' = "raised"
                /\ UNCHANGED <<datetime_format_date, rule_value, idx>>
    /\ UNCHANGED auxVars
    /\ UNCHANGED <<dti, lastOp, arg_date, message_timestamp, community_timezone,
                   self_am_to_pm_threshold, kwarg_set>>

\* the loop breaks on a value that is not None, or runs out of rules
MoveInLoopEnd ==
    /\ pc = "sieve"
    /\ datetime_format_date.tag # "None" \/ idx > Len(move_in_filter_sieve_order)
    /\ pc' = "sieved"
    /\ UNCHANGED auxVars
    /\ UNCHANGED <<dti, lastOp, arg_date, message_timestamp, community_timezone,
                   self_am_to_pm_threshold, kwarg_set, idx, datetime_format_date, trace,
                   rule_value>>

\* if datetime_format_date: the postprocessing hook; then parse_date returns
MoveInReturn ==
    /\ pc = "sieved"
    /\ datetime_format_date' =
           IF IsTruthy(datetime_format_date)
           THEN Return(move_in_postprocess_date(datetime_format_date.v, message_timestamp,
                                                kwarg_set.message_timezone))
           ELSE datetime_format_date
    /\ pc' = "returned"
    /\ UNCHANGED auxVars
    /\ UNCHANGED <<dti, lastOp, arg_date, message_timestamp, community_timezone,
                   self_am_to_pm_threshold, kwarg_set, idx, trace, rule_value>>

RECURSIVE get_move_in_date(_)
\* _get_move_in_date, its loop: datetime_min of the first whole day of the list
get_move_in_date(move_in_date) ==
    IF move_in_date = <<>> THEN None
    ELSE IF is_date(Head(move_in_date)) THEN Head(move_in_date).datetime_min
    ELSE get_move_in_date(Tail(move_in_date))

\* transform_dates_to_date_time_info after parse_date, for the one phrase of the list
GetMoveInDate ==
    /\ pc = "returned"
    /\ datetime_info_list' =
           IF IsTruthy(datetime_format_date)
           THEN <<replace_timezone(datetime_format_date.v, "naive")>>
           ELSE <<>>
    /\ parsed_dates' = <<datetime_format_date>>
    /\ pc' = "done"
    /\ UNCHANGED <<self_clean_date, dates, date_pos, threadVars>>
    /\ UNCHANGED <<dti, lastOp, arg_date, message_timestamp, community_timezone,
                   self_am_to_pm_threshold, kwarg_set, idx, datetime_format_date, trace,
                   rule_value>>

NextMoveIn ==
    \/ ParseDateBegin
    \/ MoveInCallRule
    \/ MoveInLoopEnd
    \/ MoveInReturn
    \/ GetMoveInDate

SpecMoveIn == InitMoveIn /\ [][NextMoveIn]_vars

(***************************************************************************)
(* The way of a written clock hour through the appointment pipeline: a     *)
(* rule reads the hour and its optional am/pm, converts it with            *)
(* _time_qualifier_to_int, places it on a day (datetime(year, month, day,  *)
(* extracted_hour) in _hour_range_month_date, message_day.replace(hour=..) *)
(* in the other rules), and the postprocessing pushes the value.           *)
(***************************************************************************)
\* the hours a phrase can write, and what (am|pm) can have matched under
\* re.IGNORECASE, "" for no match
WrittenHours == 0..23
WrittenQualifiers == {"", "am", "pm", "AM", "PM"}

\* the thresholds of the converter: every hour up to noon, and one above
HourThresholds == 0..13

InitHours ==
    /\ dti = DateTimeInformation
    /\ lastOp = Called("__init__")
    /\ TransformIdle
    /\ ThreadsIdle
    /\ arg_date = <<>>
    /\ message_timestamp = None
    /\ community_timezone = ""
    /\ self_am_to_pm_threshold \in HourThresholds
    /\ pc = "idle"
    /\ kwarg_set = None
    /\ idx = 0
    /\ datetime_format_date = ReturnNone
    /\ trace = <<>>
    /\ rule_value = DateTimeInformation

\* a rule converts the hour it read and returns an exact instant at that hour;
\* datetime(...) raises ValueError for an hour above 23
QualifiedHour ==
    /\ lastOp.name = "__init__"
    /\ \E time \in WrittenHours, qualifier \in WrittenQualifiers :
        LET extracted_hour ==
                time_qualifier_to_int(time, self_am_to_pm_threshold, qualifier)
        IN  IF ReplaceTimeOk(extracted_hour, 0)
            THEN /\ dti' = set_as_exact_datetime(
                               DateTimeInformation,
                               ReplaceTime(DT(0, TIME_MIN, "naive"), extracted_hour, 0))
                 /\ lastOp' = [Called("_time_qualifier_to_int") EXCEPT
                                  !.thr = self_am_to_pm_threshold,
                                  !.args = {<<time, qualifier, extracted_hour>>}]
            ELSE /\ dti' = dti
                 /\ lastOp' = [Raised("_time_qualifier_to_int", "ValueError") EXCEPT
                                  !.thr = self_am_to_pm_threshold,
                                  !.args = {<<time, qualifier, extracted_hour>>}]
    /\ UNCHANGED <<parseVars, auxVars>>

\* _postprocess_date: date.push_dates_above_threshold(self.am_to_pm_threshold)
PushQualifiedHour ==
    /\ lastOp.name = "_time_qualifier_to_int"
    /\ lastOp.exc = "none"
    /\ dti' = push_dates_above_threshold(dti, self_am_to_pm_threshold)
    /\ lastOp' = [lastOp EXCEPT !.name = "push_dates_above_threshold"]
    /\ UNCHANGED <<parseVars, auxVars>>

NextHours ==
    \/ QualifiedHour
    \/ PushQualifiedHour

SpecHours == InitHours /\ [][NextHours]_vars

(***************************************************************************)
(* parse_date over the calendar: every weekday, several months             *)
(***************************************************************************)
\* the phrases whose value depends on the weekday or the month of the message
CalendarPhrases ==
    { Phrase(<<Wd("this"), Wd("week")>>),
      Phrase(<<Wd("early"), Wd("march")>>),
      Phrase(<<Wd("mid"), Wd("march")>>),
      Phrase(<<Wd("late"), Wd("march")>>),
      Phrase(<<Wd("late"), Glued(Pn("-")), Glued(Wd("Feb"))>>),
      Phrase(<<Wd("dec"), Nm(<<5>>), Wd("or"), Wd("jan"), Nm(<<3>>)>>),
      Phrase(<<Wd("march"), Nm(<<5>>), Wd("or"), Wd("march"), Nm(<<1>>)>>),
      Phrase(<<Wd("feb"), Nm(<<3, 0>>), Wd("or"), Wd("june")>>),
      Phrase(<<Wd("hello")>>) }

\* Monday 2024-01-08 to Sunday 2024-01-14, and a day of March, of April and of
\* December
CalendarDays ==
    {Ordinal(2024, 1, day) : day \in 8..14}
        \cup {Ordinal(2024, 3, 20), Ordinal(2024, 4, 12), Ordinal(2024, 12, 30)}

InitCalendar ==
    /\ DtiIdle
    /\ TransformIdle
    /\ ThreadsIdle
    /\ arg_date \in CalendarPhrases
    /\ message_timestamp \in {DT(d, TimeOf(9, 0, 0), "US/Eastern") : d \in CalendarDays}
    /\ community_timezone = "US/Eastern"
    /\ self_am_to_pm_threshold = 9
    /\ pc = "call"
    /\ kwarg_set = None
    /\ idx = 0
    /\ datetime_format_date = ReturnNone
    /\ trace = <<>>
    /\ rule_value = DateTimeInformation

SpecCalendar == InitCalendar /\ [][Next]_vars

(***************************************************************************)
(* Properties                                                              *)
(***************************************************************************)
BothPresent(self) == self.datetime_min.some /\ self.datetime_max.some

\* C2: a value with both bounds present never has datetime_min after
\* datetime_max, whatever setters, push_dates_above_threshold and
\* push_to_next_day_if_before_time calls were made on it.
C2_MinNeverExceedsMax ==
    (BothPresent(dti) /\ Comparable(dti.datetime_min, dti.datetime_max))
        => ~Before(dti.datetime_max, dti.datetime_min)

BoundNotDecreased(old, new) ==
    old.some => (new.some /\ new.tz = old.tz /\ Instant(new) >= Instant(old))

\* C7: push_to_next_day_if_before_time never decreases a bound, and changes
\* neither bound of a between-range whose is_exact_date_range is false.
C7_ForwardRollMonotone ==
    [][lastOp'.name = "push_to_next_day_if_before_time"
        => /\ BoundNotDecreased(dti.datetime_min, dti'.datetime_min)
           /\ BoundNotDecreased(dti.datetime_max, dti'.datetime_max)
           /\ (is_between_datetime(dti) /\ ~dti.is_exact_date_range) => dti' = dti]_vars

\* the roll ran, without raising, on a non-exact between-range that starts
\* before the reference
C7_Witness ==
    /\ lastOp.name = "push_to_next_day_if_before_time"
    /\ lastOp.exc = "none"
    /\ is_between_datetime(dti)
    /\ ~dti.is_exact_date_range
    /\ Before(dti.datetime_min, lastOp.ref)

\* C8: localize_to_timezone is idempotent: localizing a localized value to
\* any zone changes nothing, and an absent bound stays absent.
C8_LocalizeIdempotent ==
    \A tz \in KnownZones, tz2 \in KnownZones :
        LET once == localize_to_timezone(dti, tz)
        IN  /\ localize_to_timezone(once, tz2) = once
            /\ once.datetime_min.some = dti.datetime_min.some
            /\ once.datetime_max.some = dti.datetime_max.some

\* localize_to_timezone was called on an open range: the present bound
\* carries a zone, the other bound is absent
C8_Witness ==
    /\ lastOp.name = "localize_to_timezone"
    /\ is_after_datetime(dti)
    /\ dti.datetime_min.tz = "US/Pacific"

(***************************************************************************)
(* Properties of parse_date                                                *)
(***************************************************************************)
\* the value parse_date holds is an object with a bound set
HasResult == IsTruthy(datetime_format_date)
result == datetime_format_date.v

\* the count of rules called so far, and the outcome of the last one
Calls == Len(trace)
LastOutcome == IF Calls = 0 THEN "" ELSE trace[Calls]

\* max - min in seconds, by the wall clock
Duration(self) ==
    (self.datetime_max.d - self.datetime_min.d) * SecondsPerDay
        + self.datetime_max.s - self.datetime_min.s

\* one calendar date, from 00:00:00 to 23:59:59
TrueWholeDay(self) ==
    /\ BothPresent(self)
    /\ self.datetime_min.d = self.datetime_max.d
    /\ Duration(self) = SecondsPerDay - 1

\* C1: every value parse_date returns for which is_date() holds is a true whole
\* day: both bounds on one calendar date, max - min one day minus one second
C1_WholeDayResultIsWholeDay ==
    (pc = "returned" /\ HasResult /\ is_date(result)) => TrueWholeDay(result)

\* the rule returned the whole message day and parse_date has returned
C1_Witness ==
    /\ pc = "returned"
    /\ LastOutcome = "obj"
    /\ is_date(rule_value)
    /\ rule_value.datetime_min.d = message_timestamp.d

\* the value came from _time_range_between, the sixth rule of the sieve, with
\* both of its bounds set
FromTimeRangeBetween ==
    Calls = 6 /\ LastOutcome = "obj" /\ BothPresent(rule_value)

C4_ExactInstantStaysExact ==
    (LastOutcome = "obj" /\ is_exact_datetime(rule_value))
        => /\ rule_value.datetime_min = rule_value.datetime_max
           /\ result.datetime_min = result.datetime_max
           /\ is_exact_datetime(result)

\* an exact instant was pushed by 12 hours and then rolled to the next day
C4_Witness ==
    /\ pc = "returned"
    /\ LastOutcome = "obj"
    /\ is_exact_datetime(rule_value)
    /\ Hour(result.datetime_min) = Hour(rule_value.datetime_min) + 12
    /\ result.datetime_min.d = rule_value.datetime_min.d + 1

\* C5: the rules are called in the order of filter_sieve_order; a rule that
\* returns None or raises ValueError is followed by the next rule; no rule is
\* called after the first one that returns a value; parse_date returns that
\* value postprocessed, or None when no rule returned a value
C5_FirstResultInSieveOrder ==
    /\ pc = "sieve" => Calls = idx - 1
    /\ Calls <= Len(filter_sieve_order)
    /\ \A i \in 1..(Calls - 1) : trace[i] \in {"None", "ValueError"}
    /\ (pc \in {"sieved", "returned"} /\ LastOutcome # "obj") =>
            /\ Calls = Len(filter_sieve_order)
            /\ datetime_format_date = ReturnNone
    /\ LastOutcome = "obj" =>
            Return(rule_value) \in RuleOutcomes(filter_sieve_order[Calls], arg_date,
                                                kwarg_set, self_am_to_pm_threshold)
    /\ (pc = "returned" /\ LastOutcome = "obj") =>
            datetime_format_date =
                Return(postprocess_date(rule_value, message_timestamp,
                                        kwarg_set.message_timezone,
                                        self_am_to_pm_threshold))

\* a rule raised ValueError, a later rule returned a value with rules left
\* uncalled, and parse_date returned it changed by postprocessing
C5_Witness ==
    /\ pc = "returned"
    /\ \E i \in 1..(Calls - 1) : trace[i] = "ValueError"
    /\ LastOutcome = "obj"
    /\ Calls < Len(filter_sieve_order)
    /\ result # rule_value

\* some rule after the calls made so far returns a value with a bound set,
\* whatever dateparser answers
LaterRuleRecognises ==
    \E j \in (Calls + 1)..Len(filter_sieve_order) :
        \A out \in RuleOutcomes(filter_sieve_order[j], arg_date, kwarg_set,
                                self_am_to_pm_threshold) : IsTruthy(out)

\* C6: a rule outcome with neither bound set counts as a non-match; when a
\* later rule recognises the phrase, parse_date returns a value with a bound set
C6_AbsentValueIsNonMatch ==
    (pc = "returned" /\ LastOutcome = "obj" /\ ~Truthy(rule_value))
        => ~LaterRuleRecognises

\* C9: parse_date ends by returning; no exception leaves it
C9_NoExceptionEscapes == pc # "raised"

\* C10: with an unknown timezone identifier, message_timezone and the TIMEZONE
\* of the parser settings are both US/Eastern
C10_DefaultZoneEverywhere ==
    (pc # "call" /\ community_timezone \notin KnownZones)
        => /\ kwarg_set.message_timezone = "US/Eastern"
           /\ kwarg_set.dateparser_settings.TIMEZONE = "US/Eastern"

(***************************************************************************)
(* Properties of transform_dates_to_date_time_info                         *)
(***************************************************************************)
\* the bound of the list is the bound parse_date returned without its zone:
\* absent when it was absent, and else on the same date at the same time
StrippedBound(listed, returned) ==
    /\ listed.some = returned.some
    /\ listed.tz = "naive"
    /\ listed.some =>
        /\ Year(listed) = Year(returned)
        /\ Month(listed) = Month(returned)
        /\ Day(listed) = Day(returned)
        /\ Hour(listed) = Hour(returned)
        /\ Minute(listed) = Minute(returned)
        /\ Second(listed) = Second(returned)

\* C11: the list of transform_dates_to_date_time_info holds, in the order of
\* dates, one value for each phrase for which parse_date returned a value with
\* a bound set and nothing for the other phrases, so it is never longer than
\* dates; no bound of the list carries a zone, and each bound has the date and
\* the time of day of the bound parse_date returned
C11_ListOfStrippedParses ==
    LET kept == SelectSeq(parsed_dates, IsTruthy)
    IN  /\ Len(parsed_dates) = date_pos
        /\ pc = "done" => date_pos = Len(dates)
        /\ Len(datetime_info_list) = Len(kept)
        /\ Len(datetime_info_list) <= Len(dates)
        /\ \A i \in 1..Len(datetime_info_list) :
            /\ i <= Len(kept)
            /\ StrippedBound(datetime_info_list[i].datetime_min, kept[i].v.datetime_min)
            /\ StrippedBound(datetime_info_list[i].datetime_max, kept[i].v.datetime_max)
            /\ datetime_info_list[i].is_exact_date_range = kept[i].v.is_exact_date_range

\* transform_dates_to_date_time_info returned a list of one value for two
\* phrases: the first phrase gave no value, the second a range whose bounds
\* carried the zone US/Pacific
C11_Witness ==
    /\ pc = "done"
    /\ Len(dates) = 2
    /\ Len(datetime_info_list) = 1
    /\ ~IsTruthy(parsed_dates[1])
    /\ IsTruthy(parsed_dates[2])
    /\ BothPresent(parsed_dates[2].v)
    /\ parsed_dates[2].v.datetime_min.tz = "US/Pacific"
    /\ parsed_dates[2].v.datetime_max.tz = "US/Pacific"
    /\ datetime_info_list[1].datetime_min.tz = "naive"

BareNine == Phrase(<<Nm(<<9>>)>>)

\* Wednesday 2024-01-10 09:00 US/Eastern
WednesdayNine == DT(Ordinal(2024, 1, 10), TimeOf(9, 0, 0), "US/Eastern")

\* the instant at hour h of the day of the message, in the zone of the message
OnMessageDay(h) == DT(message_timestamp.d, TimeOf(h, 0, 0), message_timestamp.tz)

\* the instant, moved to the next day when it is before the message timestamp
RolledIfPast(dt) == IF Before(dt, message_timestamp) THEN AddDays(dt, 1) ELSE dt

\* C13, as claimed: with threshold 9 and the message of Wednesday 2024-01-10
\* 09:00, the phrase "9" gives the exact instant 2024-01-10 21:00
C13_BareNineIsNinePm ==
    (/\ pc = "returned"
     /\ arg_date = BareNine
     /\ self_am_to_pm_threshold = 9
     /\ message_timestamp = WednesdayNine)
        => /\ HasResult
           /\ is_exact_datetime(result)
           /\ result.datetime_min = DT(Ordinal(2024, 1, 10), TimeOf(21, 0, 0), "US/Eastern")

\* C13, amended: the phrase "9" gives an exact instant from _singular_digit:
\* 09:00 of the message day with a threshold of at most 9 (the push moves the
\* hours from 1 up to the threshold, the threshold not included), 21:00 with a
\* threshold above 9; the instant is moved to the next day when, and only
\* when, it is before the message timestamp
C13_BareNineByThreshold ==
    (pc = "returned" /\ arg_date = BareNine)
        => /\ Calls = 8
           /\ HasResult
           /\ is_exact_datetime(result)
           /\ result.datetime_max = result.datetime_min
           /\ result.datetime_min =
                RolledIfPast(OnMessageDay(IF self_am_to_pm_threshold > 9 THEN 21 ELSE 9))

\* parse_date returned for "9" with threshold 9 and the message of Wednesday
\* 2024-01-10 09:00
C13_Witness ==
    /\ pc = "returned"
    /\ arg_date = BareNine
    /\ self_am_to_pm_threshold = 9
    /\ message_timestamp = WednesdayNine
    /\ Hour(result.datetime_min) = 9

\* the phrase "asap"
Asap == Phrase(<<Wd("asap")>>)

\* the value came from _asap, the fourteenth rule of the sieve
FromAsap == Calls = 14 /\ LastOutcome = "obj"

\* C14: a phrase recognised by _asap gives the day of the message as a whole
\* day, whatever the time of the message: the two bounds of the value
\* parse_date returns are on the day of the message, and convert() gives that
\* day at 00:00:00
C14_AsapIsMessageDay ==
    (pc = "returned" /\ arg_date = Asap /\ FromAsap)
        => /\ is_date(result)
           /\ result.datetime_min.d = message_timestamp.d
           /\ result.datetime_max.d = message_timestamp.d
           /\ Len(convert(result)) = 1
           /\ convert(result)[1].d = message_timestamp.d
           /\ convert(result)[1].s = TIME_MIN

\* the phrase "next monday at 3"
NextMondayAtThree == Phrase(<<Wd("next"), Wd("monday"), Wd("at"), Nm(<<3>>)>>)

\* what dateparser answers to "monday at 3" from the base 2024-01-10: the
\* upcoming Monday, 2024-01-15, at 03:00, in the zone of its settings
UpcomingMondayAtThree == DT(Ordinal(2024, 1, 15), TimeOf(3, 0, 0),
                            kwarg_set.dateparser_settings.TIMEZONE)

\* parse_date returned for "next monday at 3" and the message of Wednesday
\* 2024-01-10 09:00 the value of _time_qualifier, dateparser having answered
\* the upcoming Monday at 03:00
NextMondayParsed ==
    /\ pc = "returned"
    /\ arg_date = NextMondayAtThree
    /\ message_timestamp = WednesdayNine
    /\ community_timezone \in KnownZones
    /\ Calls = 3
    /\ datetime_format_date.tag = "obj"
    /\ Return(rule_value) = time_qualifier(arg_date, kwarg_set, UpcomingMondayAtThree, None)

\* C15, as claimed: the result is the exact instant 2024-01-15 15:00
C15_NextMondayIsUpcomingMonday ==
    NextMondayParsed
        => /\ is_exact_datetime(result)
           /\ result.datetime_min = AddHours(UpcomingMondayAtThree, 12)

\* C15, amended: the result is the exact instant 2024-01-22 15:00, the
\* upcoming Monday at 03:00 moved by the seven days of "next" and by the
\* twelve hours of the push
C15_NextMondayIsAWeekLater ==
    NextMondayParsed
        => /\ is_exact_datetime(result)
           /\ result.datetime_max = result.datetime_min
           /\ result.datetime_min.d = Ordinal(2024, 1, 22)
           /\ result.datetime_min.s = TimeOf(15, 0, 0)
           /\ result.datetime_min.tz = community_timezone

\* the case of the claim, with the timezone of the message
C15_Witness ==
    /\ NextMondayParsed
    /\ community_timezone = "US/Eastern"
    /\ self_am_to_pm_threshold = 9
    /\ Weekday(result.datetime_min) = 0

\* the hours, the month and the day written in "H1pm to H2pm on <month> <day>"
WrittenHour1 == DigitsValue(arg_date[1].ds)
WrittenHour2 == DigitsValue(arg_date[4].ds)
WrittenMonth == MONTH_NUMS_LOOKUP(Lower(arg_date[7].w))
WrittenDay == DigitsValue(arg_date[8].ds)

\* hour h of the written month and day, in the year and the zone of the message
OnWrittenDate(h) ==
    DT(Ordinal(Year(message_timestamp), WrittenMonth, WrittenDay), TimeOf(h, 0, 0),
       message_timestamp.tz)

\* C16: for "H1pm to H2pm on <month> <day>" with 1 <= H1 < H2 <= 11,
\* _time_range_between gives the exact between-range from (H1+12):00 to
\* (H2+12):00 of that month and day in the year of the message, and
\* parse_date returns it unchanged when its start is not before the message
C16_PmRangeOnDate ==
    (pc = "returned" /\ arg_date \in PmRangePhrases)
        => /\ Calls = 6
           /\ LastOutcome = "obj"
           /\ rule_value = [datetime_min |-> OnWrittenDate(WrittenHour1 + 12),
                            datetime_max |-> OnWrittenDate(WrittenHour2 + 12),
                            is_exact_date_range |-> TRUE]
           /\ is_between_datetime(result)
           /\ result.is_exact_date_range
           /\ ~Before(rule_value.datetime_min, message_timestamp) => result = rule_value

\* parse_date returned for "1pm to 3pm on Feb 3" and the message of Wednesday
\* 2024-01-10 09:00 the range from 2024-02-03 13:00 to 2024-02-03 15:00
C16_Witness ==
    /\ pc = "returned"
    /\ arg_date = PmRangePhrase(1, 3, "Feb", 3)
    /\ message_timestamp = WednesdayNine
    /\ result.datetime_min = DT(Ordinal(2024, 2, 3), TimeOf(13, 0, 0), "US/Eastern")
    /\ result.datetime_max = DT(Ordinal(2024, 2, 3), TimeOf(15, 0, 0), "US/Eastern")
    /\ result.is_exact_date_range

\* the phrase "tomorrow morning"
TomorrowMorning == Phrase(<<Wd("tomorrow"), Wd("morning")>>)

\* the value came from _time_of_day, the last rule of the sieve
FromTimeOfDay == Calls = 16 /\ LastOutcome = "obj"

\* the phrase names the time of day
Names(time_of_day_name) == \E i \in 1..Len(arg_date) : Word(arg_date[i], time_of_day_name)

\* the times of day of the two bounds
BucketOf(self) == <<self.datetime_min.s, self.datetime_max.s>>

\* the bound has the date and the time of day it had
SameWallClock(new, old) == new.some = old.some /\ new.d = old.d /\ new.s = old.s

Classifications(self) ==
    {name \in {"is_date", "is_exact_datetime", "is_after_datetime", "is_before_datetime",
               "is_between_datetime"} :
        CASE name = "is_date" -> is_date(self)
          [] name = "is_exact_datetime" -> is_exact_datetime(self)
          [] name = "is_after_datetime" -> is_after_datetime(self)
          [] name = "is_before_datetime" -> is_before_datetime(self)
          [] name = "is_between_datetime" -> is_between_datetime(self)}

RECURSIVE SieveOutcomes(_, _, _, _)
\* the loop of parse_date from rule i on: the values datetime_format_date can end with,
\* or the exception that leaves the loop
SieveOutcomes(date, kw, am_to_pm_threshold, i) ==
    IF i > Len(filter_sieve_order) THEN {ReturnNone}
    ELSE UNION { IF out.tag = "obj" THEN {out}
                 ELSE IF out.tag = "None" \/ out.e = "ValueError"
                 THEN SieveOutcomes(date, kw, am_to_pm_threshold, i + 1)
                 ELSE {out} :
                 out \in RuleOutcomes(filter_sieve_order[i], date, kw, am_to_pm_threshold) }

\* parse_date run alone, from its arguments to what it returns or raises
ParseDateAlone(date, message_timestamp_val, timezone, am_to_pm_threshold) ==
    LET kw == KwargSet(message_timestamp_val, timezone)
        Finish(out) ==
            IF ~IsTruthy(out) THEN out
            ELSE IF push_to_next_day_raises(
                        push_dates_above_threshold(
                            localize_to_timezone(out.v, kw.message_timezone),
                            am_to_pm_threshold),
                        message_timestamp_val)
            THEN Raise("TypeError")
            ELSE Return(postprocess_date(out.v, message_timestamp_val,
                                         kw.message_timezone, am_to_pm_threshold))
    IN  {Finish(out) : out \in SieveOutcomes(date, kw, am_to_pm_threshold, 1)}

\* call t is over
Finished(t) == calls[t].pc \in {"returned", "raised"}

\* what the finished call t gave its caller
ThreadOutcome(t) ==
    IF calls[t].pc = "raised" THEN Raise(calls[t].exc)
    ELSE IF calls[t].datetime_format_date = 0 THEN ReturnNone
    ELSE Return(Held(t))

\* C19: under any interleaving of concurrent calls of parse_date on one shared
\* converter, no step writes the converter's configuration, the object a call holds
\* was created by that call, and what a finished call has returned (or raised) is,
\* and stays, a result the same call gives when run alone.
C19_ConcurrentCallsAreIsolated ==
    /\ [](\A t \in Threads :
            /\ calls[t].datetime_format_date # 0 => Creator(t) = t
            /\ Finished(t) =>
                   ThreadOutcome(t) \in
                       ParseDateAlone(calls[t].date, calls[t].message_timestamp,
                                      calls[t].community_timezone,
                                      self_am_to_pm_threshold))
    /\ [][/\ self_am_to_pm_threshold' = self_am_to_pm_threshold
          /\ self_clean_date' = self_clean_date]_vars

\* two calls with the phrase "3" and different timestamps have both returned, each
\* holding its own postprocessed object, and the two objects differ
C19_Witness ==
    /\ calls[1].pc = "returned" /\ calls[2].pc = "returned"
    /\ calls[1].date = calls[2].date
    /\ calls[1].message_timestamp # calls[2].message_timestamp
    /\ calls[1].datetime_format_date # 0 /\ calls[2].datetime_format_date # 0
    /\ calls[1].datetime_format_date # calls[2].datetime_format_date
    /\ Held(1) # Held(2)
    /\ Hour(Held(1).datetime_min) = 15


(***************************************************************************)
(* C20: the move-in-date variant                                           *)
(***************************************************************************)
MarchFirst == Phrase(<<Wd("march"), Nm(<<1>>)>>)

\* the value came from _space_delimted_month, the last rule of the variant's list
FromSpaceDelimitedMonth ==
    /\ Calls = Len(move_in_filter_sieve_order)
    /\ move_in_filter_sieve_order[Calls] = "_space_delimted_month"
    /\ LastOutcome = "obj"

\* the first of March that is not before the month of the message
UpcomingMarchFirst ==
    DT(Ordinal(IF Month(message_timestamp) <= 3 THEN 2024 ELSE 2025, 3, 1), TIME_MIN,
       "naive")

\* the phrases of MoveInPhrases that only a clock-time rule recognises
ClockTimePhrases ==
    {Phrase(<<Nm(<<3>>)>>), Phrase(<<Wd("tomorrow"), Wd("at"), Nm(<<3>>)>>)}

WallClock(dt) == dt.d * SecondsPerDay + dt.s

\* new is what push_dates_above_threshold makes of the bound old
PushedAsClaimed(old, new, hour_threshold) ==
    IF old.some /\ 1 <= Hour(old) /\ Hour(old) < hour_threshold
    THEN /\ new.some
         /\ new.tz = old.tz
         /\ WallClock(new) = WallClock(old) + 12 * 3600
         /\ Hour(old) < 12 => new.d = old.d
    ELSE new = old

\* C21: a call of push_dates_above_threshold advances by exactly 12 hours each
\* present bound whose hour h has 1 <= h < threshold (on the same date when
\* h < 12), whatever the other bound is, and leaves alone a bound of hour 0 or of
\* an hour at or above the threshold, and an absent bound
C21_PushIsPerBound ==
    [][lastOp'.name = "push_dates_above_threshold" =>
          /\ PushedAsClaimed(dti.datetime_min, dti'.datetime_min, lastOp'.thr)
          /\ PushedAsClaimed(dti.datetime_max, dti'.datetime_max, lastOp'.thr)
          /\ dti'.is_exact_date_range = dti.is_exact_date_range]_vars

\* a range from 08:00 to 13:00 has been pushed with threshold 9: its start is at
\* 20:00 of the same day, its end still at 13:00
C21_Witness ==
    /\ lastOp.name = "push_dates_above_threshold"
    /\ lastOp.thr = 9
    /\ BothPresent(dti)
    /\ Hour(dti.datetime_min) = 20
    /\ Hour(dti.datetime_max) = 13
    /\ dti.datetime_min.d = dti.datetime_max.d


(***************************************************************************)
(* C22: the order of the three steps of the appointment postprocessing     *)
(***************************************************************************)
\* the bound the rule gave to an exact instant, with the zone localize gives it
LocalizedInstant == LocalizeBound(rule_value.datetime_min, kwarg_set.message_timezone)

\* parse_date has returned an exact instant that its rule placed on the message
\* day at an hour h with 1 <= h < threshold, and h + 12 is not before the message
PushedInstantInTime ==
    /\ pc = "returned"
    /\ HasResult
    /\ is_exact_datetime(rule_value)
    /\ LocalizedInstant.d = message_timestamp.d
    /\ 1 <= Hour(LocalizedInstant)
    /\ Hour(LocalizedInstant) < self_am_to_pm_threshold
    /\ ~Before(AddHours(LocalizedInstant, 12), message_timestamp)

\* the result is the instant 12 hours after the rule's, and not rolled
PushedNotRolled ==
    /\ result.datetime_min = AddHours(LocalizedInstant, 12)
    /\ result.datetime_max = AddHours(LocalizedInstant, 12)

\* C22, as claimed: the forward roll sees the bound after the 12-hour push, so an
\* exact instant at hour h, 1 <= h < threshold, on the message day stays on the
\* message day whenever h + 12 is not before the message timestamp
C22_RollSeesPushedBound ==
    PushedInstantInTime =>
        /\ PushedNotRolled
        /\ result.datetime_min.d = message_timestamp.d

\* C22, amended: the same for h < 12; at hour 12, which only a threshold above 12
\* pushes, the instant is 12 hours later and not rolled, on the next day at 00:00
C22_RollSeesPushedBoundBeforeNoon ==
    PushedInstantInTime =>
        /\ PushedNotRolled
        /\ Hour(LocalizedInstant) < 12 => result.datetime_min.d = message_timestamp.d
        /\ Hour(LocalizedInstant) >= 12 => result.datetime_min.d = message_timestamp.d + 1

\* "3" sent at 09:00 with threshold 8: 03:00 is before the message, 15:00 is not,
\* and the result is 15:00 on the message day
C22_Witness ==
    /\ PushedInstantInTime
    /\ Before(LocalizedInstant, message_timestamp)
    /\ Hour(result.datetime_min) = Hour(LocalizedInstant) + 12
    /\ result.datetime_min.d = message_timestamp.d

(***************************************************************************)
(* C23: a clock hour is shifted by 12 hours at most once                   *)
(***************************************************************************)
\* the hour read, its qualifier and the hour _time_qualifier_to_int returned
HourRead == (CHOOSE a \in lastOp.args : TRUE)[1]
QualifierRead == (CHOOSE a \in lastOp.args : TRUE)[2]
HourReturned == (CHOOSE a \in lastOp.args : TRUE)[3]

\* C23: for a threshold of at most 12 and a written hour 0..23,
\* _time_qualifier_to_int returns the hour or the hour plus 12 (plus 12 when
\* marked pm and below 12, else plus 12 when below the threshold, also when
\* marked am), within 0..23 and never below the threshold; and the 12-hour push
\* of the postprocessing leaves the instant at that hour where it is
C23_HourShiftedAtMostOnce ==
    (lastOp.name \in {"_time_qualifier_to_int", "push_dates_above_threshold"}
        /\ self_am_to_pm_threshold <= 12) =>
        /\ lastOp.exc = "none"
        /\ HourReturned =
               IF QualifierRead = "pm" /\ HourRead < 12 THEN HourRead + 12
               ELSE IF HourRead < self_am_to_pm_threshold THEN HourRead + 12
               ELSE HourRead
        /\ HourReturned \in self_am_to_pm_threshold..23
        /\ dti.datetime_min = DT(0, TimeOf(HourReturned, 0, 0), "naive")
        /\ dti.datetime_max = dti.datetime_min

\* "3am" with threshold 9: the rule has placed it at 15:00 and the push has been
\* applied and has left it at 15:00
C23_Witness ==
    /\ lastOp.name = "push_dates_above_threshold"
    /\ self_am_to_pm_threshold = 9
    /\ HourRead = 3
    /\ QualifierRead = "am"
    /\ Hour(dti.datetime_min) = 15


(***************************************************************************)
(* C24: the forward roll is one day, once                                  *)
(***************************************************************************)
\* new is what a call with the reference makes of the bound old, as claimed: a
\* bound before the reference is advanced by exactly one day, and then it is at or
\* after the reference if and only if it was at most one day before it; no bound is
\* advanced by more than a day
RolledAsClaimed(old, new, reference_timestamp) ==
    /\ new \in {old, AddDays(old, 1)}
    /\ (old.some /\ Before(old, reference_timestamp)) =>
          /\ new = AddDays(old, 1)
          /\ ~Before(new, reference_timestamp) <=>
                 Instant(reference_timestamp) - Instant(old) <= SecondsPerDay

\* a call of push_to_next_day_if_before_time has just returned
RollReturns ==
    /\ lastOp'.name = "push_to_next_day_if_before_time"
    /\ lastOp'.exc = "none"

\* C24, as claimed: a call of push_to_next_day_if_before_time advances a bound
\* that is before the reference by exactly one day, never by more, so that the
\* bound ends at or after the reference if and only if it was at most one day
\* before it, and is still before it otherwise
C24_StaleBoundRolledOneDay ==
    [][RollReturns =>
          /\ RolledAsClaimed(dti.datetime_min, dti'.datetime_min, lastOp'.ref)
          /\ RolledAsClaimed(dti.datetime_max, dti'.datetime_max, lastOp'.ref)]_vars

\* C24, amended: the same for every value but a between-range that is not exact,
\* which the call leaves as it is, however long before the reference it lies
C24_StaleBoundRolledOneDayUnlessFuzzy ==
    [][RollReturns =>
          IF is_between_datetime(dti) /\ ~dti.is_exact_date_range
          THEN dti' = dti
          ELSE /\ RolledAsClaimed(dti.datetime_min, dti'.datetime_min, lastOp'.ref)
               /\ RolledAsClaimed(dti.datetime_max, dti'.datetime_max, lastOp'.ref)]_vars

\* an exact instant has been rolled and is still before the reference: it was
\* more than one day before it
C24_Witness ==
    /\ lastOp.name = "push_to_next_day_if_before_time"
    /\ lastOp.exc = "none"
    /\ is_exact_datetime(dti)
    /\ dti.datetime_min.d >= 1
    /\ Comparable(dti.datetime_min, lastOp.ref)
    /\ Before(dti.datetime_min, lastOp.ref)


(***************************************************************************)
(* C25: "this week"                                                        *)
(***************************************************************************)
\* the phrase "this week"
ThisWeek == Phrase(<<Wd("this"), Wd("week")>>)

\* the value came from _weekday_converter, the first rule of the sieve
FromWeekdayConverter == Calls = 1 /\ LastOutcome = "obj"

\* the first day after the day dt that falls on the weekday (Monday is 0)
ComingWeekday(dt, weekday) ==
    AddDays(dt, CHOOSE n \in 1..7 : (dt.d + n) % 7 = weekday)

\* the whole day of dt, as set_as_date makes it
WholeDayOf(dt) ==
    [datetime_min |-> Combine(dt, TIME_MIN),
     datetime_max |-> Combine(dt, TIME_MAX),
     is_exact_date_range |-> TRUE]

EarlyMidLatePhrases ==
    {phrase \in CalendarPhrases : phrase[1].w \in {"early", "mid", "late"}}

\* the number of the month the phrase names, its last word
NamedMonth == MONTH_NUMS_LOOKUP(Lower(arg_date[Len(arg_date)].w))

\* the year of the message, the next one when the named month is before the
\* month of the message
ResolvedYear ==
    IF NamedMonth < Month(message_timestamp)
    THEN Year(message_timestamp) + 1 ELSE Year(message_timestamp)

\* day 1, day 15 or the last day of the named month
NamedDay ==
    CASE arg_date[1].w = "early" -> 1
      [] arg_date[1].w = "mid" -> 15
      [] arg_date[1].w = "late" -> DaysInMonth(ResolvedYear, NamedMonth)

\* the value came from _early_mid_late_month, the second rule of the sieve
FromEarlyMidLateMonth == Calls = 2 /\ LastOutcome = "obj"

\* C26: _early_mid_late_month gives the whole day that is day 1 (early), day 15
\* (mid) or the last day (late) of the named month, in the year of the message,
\* or the next year exactly when the number of the named month is less than the
\* month of the message; "mid march" for a message of 2024-01-10 gives the
\* whole day 2024-03-15
C26_EarlyMidLateMonth ==
    (pc = "returned" /\ arg_date \in EarlyMidLatePhrases)
        => /\ FromEarlyMidLateMonth
           /\ is_date(rule_value)
           /\ rule_value =
                WholeDayOf(DT(Ordinal(ResolvedYear, NamedMonth, NamedDay), TIME_MIN, "naive"))
           /\ (/\ arg_date = Phrase(<<Wd("mid"), Wd("march")>>)
               /\ message_timestamp.d = Ordinal(2024, 1, 10))
                 => /\ rule_value.datetime_min.d = Ordinal(2024, 3, 15)
                    /\ rule_value.datetime_max.d = Ordinal(2024, 3, 15)

\* parse_date returned for "late-Feb" and a message of 2024-04-12 the whole
\* day 2025-02-28
C26_Witness ==
    /\ pc = "returned"
    /\ arg_date = Phrase(<<Wd("late"), Glued(Pn("-")), Glued(Wd("Feb"))>>)
    /\ message_timestamp.d = Ordinal(2024, 4, 12)
    /\ rule_value.datetime_min.d = Ordinal(2025, 2, 28)
    /\ rule_value.datetime_max.d = Ordinal(2025, 2, 28)


(***************************************************************************)
(* C27: today and tomorrow with a clock time                               *)
(***************************************************************************)
\* the first number of the phrase, its clock time
FirstNumber == Least({i \in 1..Len(arg_date) : IsNum(arg_date[i])})

\* the clock time as the rules read it: the hour after _time_qualifier_to_int
\* and the minute, in seconds of the day
WrittenClock ==
    LET parsed_time == parse_hour_minute_str(arg_date[FirstNumber])
    IN  TimeOf(time_qualifier_to_int(parsed_time.hour, self_am_to_pm_threshold,
                                     TimeOfDayAfter(arg_date, FirstNumber)),
               parsed_time.minute, 0)

\* the last word of the phrase when it is "later" or "earlier", or ""
WrittenSuffix ==
    IF arg_date[Len(arg_date)].k = "w" /\ arg_date[Len(arg_date)].w \in {"later", "earlier"}
    THEN arg_date[Len(arg_date)].w ELSE ""

\* the value has the shape the suffix asks for, with its bound at the clock
\* time on the day
PlacedOn(self, day, clock, suffix) ==
    LET moment == [some |-> TRUE, d |-> day, s |-> clock, tz |-> kwarg_set.message_day.tz]
    IN  CASE suffix = "later" -> self.datetime_min = moment /\ ~self.datetime_max.some
          [] suffix = "earlier" -> self.datetime_max = moment /\ ~self.datetime_min.some
          [] OTHER -> self.datetime_min = moment /\ self.datetime_max = moment

\* the value came from _tomorrow_qualifier_time, the fourth rule of the sieve,
\* or from _today_qualifier_time, the fifth
FromTomorrowQualifierTime == Calls = 4 /\ LastOutcome = "obj"
FromTodayQualifierTime == Calls = 5 /\ LastOutcome = "obj"

\* the phrase "1 to 3 tomorrow": its first clock time has no marker next to it
OneToThreeTomorrow ==
    Phrase(<<Nm(<<1>>), Wd("to"), Nm(<<3>>), Wd("tomorrow")>>)

\* C27: a value of _tomorrow_qualifier_time has the clock time of the phrase on
\* the day after the message day, a value of _today_qualifier_time on the
\* message day; it is an after-range (only datetime_min) when the phrase ends
\* with "or later", a before-range (only datetime_max) when it ends with "or
\* earlier", and an exact instant otherwise; for a phrase with a clock time and
\* no "today" or "tomorrow" next to it, both rules return None
C27_TodayTomorrowClockTime ==
    /\ FromTomorrowQualifierTime =>
          /\ Names("tomorrow")
          /\ PlacedOn(rule_value, message_timestamp.d + 1, WrittenClock, WrittenSuffix)
    /\ FromTodayQualifierTime =>
          /\ Names("today")
          /\ PlacedOn(rule_value, message_timestamp.d, WrittenClock, WrittenSuffix)
    /\ ((~Names("today") /\ ~Names("tomorrow")) \/ arg_date = OneToThreeTomorrow) =>
          \A i \in {4, 5} : i <= Calls => trace[i] = "None"

\* _tomorrow_qualifier_time returned the after-range from 22:00 of the day after
\* the message for "tomorrow at 10pm or later"
C27_Witness ==
    /\ FromTomorrowQualifierTime
    /\ arg_date = Phrase(<<Wd("tomorrow"), Wd("at")>> \o ClockTime(10, "pm")
                             \o <<Wd("or"), Wd("later")>>)
    /\ rule_value.datetime_min.d = message_timestamp.d + 1
    /\ Hour(rule_value.datetime_min) = 22
    /\ ~rule_value.datetime_max.some


(***************************************************************************)
(* C28: a bare number is an hour of the day                                *)
(***************************************************************************)
\* the number a phrase of one or two digits writes
WrittenNumber == DigitsValue(arg_date[1].ds)

\* C28: for a phrase that is only a number of one or two digits from 0 to 23,
\* _singular_digit, the eighth rule of the sieve, gives the exact instant at
\* that hour of the message day, and _exception_safe_date_parse, the tenth
\* rule, returns None for every phrase that is only a number of one or two
\* digits
C28_BareNumberIsHour ==
    (pc = "returned" /\ IsShortNumber(arg_date))
        => /\ WrittenNumber <= 23 =>
                /\ Calls = 8
                /\ LastOutcome = "obj"
                /\ rule_value =
                     set_as_exact_datetime(DateTimeInformation,
                                           ReplaceTime(kwarg_set.message_day,
                                                       WrittenNumber, 0))
           /\ Calls >= 10 => trace[10] = "None"


(***************************************************************************)
(* C29: the list notation "3pm-4pm - sep 11"                               *)
(***************************************************************************)
\* "<h1>pm-<h2>pm - <month> 11" with h1 before h2
ListNotation(hour1, hour2, month) ==
    Phrase(ClockTime(hour1, "pm") \o <<Glued(Pn("-"))>>
               \o <<Glued(Nm(Digits(hour2))), Glued(Wd("pm"))>>
               \o <<Pn("-"), Wd(month), Nm(<<1, 1>>)>>)

\* the value came from _hour_range_month_date, the ninth rule of the sieve
FromHourRangeMonthDate == Calls = 9 /\ LastOutcome = "obj"

\* C29: "3pm-4pm - sep 11" is resolved by _hour_range_month_date, the ninth
\* rule of the sieve, no earlier rule returning a value, to the exact instant
\* 15:00 of September 11 of the year of the message
C29_ListNotationIsFirstClockTime ==
    (pc = "returned" /\ arg_date = ListNotation(3, 4, "sep"))
        => /\ FromHourRangeMonthDate
           /\ \A i \in 1..8 : trace[i] # "obj"
           /\ rule_value =
                set_as_exact_datetime(
                    DateTimeInformation,
                    DT(Ordinal(Year(message_timestamp), 9, 11), TimeOf(15, 0, 0), "naive"))
           /\ is_exact_datetime(datetime_format_date.v)


(***************************************************************************)
(* C30: several months in one phrase                                       *)
(***************************************************************************)
\* the pairs (month number, day) of the months the phrase mentions, the day
\* being 1 where none is written
MentionedMonthDays ==
    {<<MONTH_NUMS_LOOKUP(Lower(arg_date[i].w)),
       IF MonthDayDigits(arg_date, i) = <<>> THEN 1
       ELSE DigitsValue(MonthDayDigits(arg_date, i))>> :
        i \in {j \in 1..Len(arg_date) : MonthMentionAt(arg_date, j)}}

\* the phrases of the calendar that mention several months
SeveralMonthsPhrases ==
    {phrase \in CalendarPhrases :
        Cardinality({j \in 1..Len(phrase) : MonthMentionAt(phrase, j)}) > 1}

\* the mention that is least by month number, then by day
EarliestMention ==
    CHOOSE a \in MentionedMonthDays :
        \A b \in MentionedMonthDays : a[1] < b[1] \/ (a[1] = b[1] /\ a[2] <= b[2])

\* the day a mention stands for: in the year after the message's when its month
\* is before the month of the message, the day brought into the month
MentionedDay(mention) ==
    LET year == IF mention[1] < Month(message_timestamp)
                THEN Year(message_timestamp) + 1 ELSE Year(message_timestamp)
        last == DaysInMonth(year, mention[1])
        day == IF mention[2] < 1 THEN 1 ELSE IF mention[2] > last THEN last ELSE mention[2]
    IN  Ordinal(year, mention[1], day)

\* the value came from _space_delimted_month, the fifteenth rule of the sieve
FromSpaceDelimtedMonth == Calls = 15 /\ LastOutcome = "obj"

\* no mentioned day is before the day of the chosen mention
ChosenIsEarliestDay ==
    \A mention \in MentionedMonthDays : MentionedDay(EarliestMention) <= MentionedDay(mention)

\* C30, as claimed: for a phrase that mentions several months,
\* _space_delimted_month gives the whole day of the mention that is least by
\* (month number, day), a missing day counting as 1, with the day brought into
\* the month and the year after the message's exactly when the month is before
\* the month of the message; that day is the earliest of the mentioned days
C30_EarliestMentionIsEarliestDay ==
    (pc = "returned" /\ arg_date \in SeveralMonthsPhrases /\ FromSpaceDelimtedMonth)
        => /\ rule_value =
                WholeDayOf(DT(MentionedDay(EarliestMention), TIME_MIN, "naive"))
           /\ ChosenIsEarliestDay

\* C30, amended: the same, but the day is the earliest of the mentioned days
\* exactly when the mentioned months are all before the month of the message or
\* none of them is
C30_EarliestMentionByMonthNumber ==
    (pc = "returned" /\ arg_date \in SeveralMonthsPhrases /\ FromSpaceDelimtedMonth)
        => /\ rule_value =
                WholeDayOf(DT(MentionedDay(EarliestMention), TIME_MIN, "naive"))
           /\ ChosenIsEarliestDay <=>
                \/ \A mention \in MentionedMonthDays : mention[1] < Month(message_timestamp)
                \/ \A mention \in MentionedMonthDays : mention[1] >= Month(message_timestamp)

\* _space_delimted_month returned for "feb 30 or june" and a message of
\* 2024-04-12 the whole day 2025-02-28, before which lies the mentioned
\* 2024-06-01
C30_Witness ==
    /\ pc = "returned"
    /\ FromSpaceDelimtedMonth
    /\ arg_date = Phrase(<<Wd("feb"), Nm(<<3, 0>>), Wd("or"), Wd("june")>>)
    /\ message_timestamp.d = Ordinal(2024, 4, 12)
    /\ rule_value.datetime_min.d = Ordinal(2025, 2, 28)
    /\ ~ChosenIsEarliestDay

====
